---- MODULE Spec2Model ----
(***************************************************************************)
(* A model of the multi-year statement reconciliation engine of           *)
(* helpers/merger_helper.py.                                               *)
(*                                                                         *)
(* Data conventions                                                        *)
(*   - a Python str is a sequence of tokens; a token is one character,    *)
(*     or, for XBRL tags and metadata, one atomic name that contains no   *)
(*     separator character;                                                *)
(*   - Python None in a str-valued place is the reserved one-token        *)
(*     sequence NoneV;                                                     *)
(*   - a Python dict is an association list in insertion order (dicts     *)
(*     are insertion ordered and the code reads "the first key");         *)
(*   - a value cell is a record: a scalar (None, int, float, str) or a    *)
(*     {"value": scalar, "meta": m} dict.                                  *)
(***************************************************************************)
EXTENDS Integers, Sequences, FiniteSets, TLC

(***************************************************************************)
(* Strings                                                                 *)
(***************************************************************************)
NoneV == <<"None">>

Truthy(s) == s # NoneV /\ s # <<>>

Digits == <<"0", "1", "2", "3", "4", "5", "6", "7", "8", "9">>

LowerLetters == <<"a", "b", "c", "d", "e", "f", "g", "h", "i", "j", "k", "l", "m",
                  "n", "o", "p", "q", "r", "s", "t", "u", "v", "w", "x", "y", "z">>

UpperLetters == <<"A", "B", "C", "D", "E", "F", "G", "H", "I", "J", "K", "L", "M",
                  "N", "O", "P", "Q", "R", "S", "T", "U", "V", "W", "X", "Y", "Z">>

Whitespace == {" ", "\t", "\n"}

Range(f) == {f[i] : i \in DOMAIN f}

IsDigit(c) == c \in Range(Digits)

IndexIn(seq, c) == CHOOSE i \in DOMAIN seq : seq[i] = c

\* str.lower() on one character
LowerOf(c) == IF c \in Range(UpperLetters) THEN LowerLetters[IndexIn(UpperLetters, c)] ELSE c

\* ord() of the characters that the code ever orders (labels, period keys)
Ord(c) ==
  IF c \in Range(Digits) THEN 47 + IndexIn(Digits, c)
  ELSE IF c \in Range(UpperLetters) THEN 64 + IndexIn(UpperLetters, c)
  ELSE IF c \in Range(LowerLetters) THEN 96 + IndexIn(LowerLetters, c)
  ELSE IF c = " " THEN 32
  ELSE IF c = "-" THEN 45
  ELSE IF c = ":" THEN 58
  ELSE IF c = "|" THEN 124
  ELSE 127

\* Python's < on str: lexicographic, a proper prefix is smaller
RECURSIVE StrLess(_, _)
StrLess(a, b) ==
  IF b = <<>> THEN FALSE
  ELSE IF a = <<>> THEN TRUE
  ELSE IF Ord(Head(a)) # Ord(Head(b)) THEN Ord(Head(a)) < Ord(Head(b))
  ELSE StrLess(Tail(a), Tail(b))

RECURSIVE LStrip(_)
LStrip(s) == IF s # <<>> /\ Head(s) \in Whitespace THEN LStrip(Tail(s)) ELSE s

RECURSIVE RStrip(_)
RStrip(s) ==
  IF s # <<>> /\ s[Len(s)] \in Whitespace THEN RStrip(SubSeq(s, 1, Len(s) - 1)) ELSE s

\* str.strip()
Strip(s) == RStrip(LStrip(s))

\* str.replace(c, "")
RECURSIVE RemoveChar(_, _)
RemoveChar(s, c) ==
  IF s = <<>> THEN <<>>
  ELSE IF Head(s) = c THEN RemoveChar(Tail(s), c)
  ELSE <<Head(s)>> \o RemoveChar(Tail(s), c)

\* re.sub(r"\s+", " ", s): every run of whitespace becomes one blank
RECURSIVE CollapseWs(_)
CollapseWs(s) ==
  IF s = <<>> THEN <<>>
  ELSE IF Head(s) \in Whitespace
       THEN <<" ">> \o CollapseWs(LStrip(s))
       ELSE <<Head(s)>> \o CollapseWs(Tail(s))

\* re.sub(r"[^a-z0-9 ]", " ", s)
NonAlnumToBlank(s) ==
  [i \in DOMAIN s |->
     IF s[i] \in Range(LowerLetters) \/ s[i] \in Range(Digits) \/ s[i] = " "
     THEN s[i] ELSE " "]

normalize_label(label) ==
  IF ~Truthy(label) THEN <<>>
  ELSE Strip(CollapseWs(NonAlnumToBlank([i \in DOMAIN label |-> LowerOf(label[i])])))

\* the place of the leftmost match of (20\d{2}|19\d{2}) in s, 0 when there is none
YearMatchAt(s, i) ==
  /\ i + 3 <= Len(s)
  /\ \/ (s[i] = "2" /\ s[i + 1] = "0")
     \/ (s[i] = "1" /\ s[i + 1] = "9")
  /\ IsDigit(s[i + 2])
  /\ IsDigit(s[i + 3])

YearSearch(s) ==
  IF \E i \in DOMAIN s : YearMatchAt(s, i)
  THEN CHOOSE i \in DOMAIN s : YearMatchAt(s, i) /\ \A j \in 1..(i - 1) : ~YearMatchAt(s, j)
  ELSE 0

normalize_year_key(key) ==
  IF ~Truthy(key) THEN <<>>
  ELSE IF YearSearch(key) # 0 THEN SubSeq(key, YearSearch(key), YearSearch(key) + 3)
  ELSE key

\* int(s) of a str: defined when s is a non-empty run of digits (the code passes
\* stripped keys only); IntOk tells whether int() returns or raises ValueError
IntOk(s) == s # <<>> /\ s # NoneV /\ \A i \in DOMAIN s : IsDigit(s[i])

RECURSIVE IntOf(_)
IntOf(s) ==
  IF s = <<>> THEN 0
  ELSE 10 * IntOf(SubSeq(s, 1, Len(s) - 1)) + (IndexIn(Digits, s[Len(s)]) - 1)

\* str(n) of an int
RECURSIVE DigitsOf(_)
DigitsOf(n) ==
  IF n < 10 THEN <<Digits[n + 1]>> ELSE DigitsOf(n \div 10) \o <<Digits[(n % 10) + 1]>>

StrOfInt(n) == IF n < 0 THEN <<"-">> \o DigitsOf(0 - n) ELSE DigitsOf(n)

(***************************************************************************)
(* Association lists (insertion-ordered dicts): sequences of [k, v]        *)
(***************************************************************************)
DKeys(d) == {d[i].k : i \in DOMAIN d}

DKeySeq(d) == [i \in DOMAIN d |-> d[i].k]

DHas(d, key) == \E i \in DOMAIN d : d[i].k = key

DGet(d, key) == d[CHOOSE i \in DOMAIN d : d[i].k = key].v

\* d[key] = val: a present key keeps its place, a new key goes last
DPut(d, key, val) ==
  IF DHas(d, key)
  THEN [i \in DOMAIN d |-> IF d[i].k = key THEN [k |-> key, v |-> val] ELSE d[i]]
  ELSE Append(d, [k |-> key, v |-> val])

\* the dict as an unordered mapping (Python's == on dicts ignores the order)
DAsMap(d) == {<<d[i].k, d[i].v>> : i \in DOMAIN d}

(***************************************************************************)
(* Value cells                                                             *)
(***************************************************************************)
VNone == [d |-> FALSE, hv |-> FALSE, m |-> "", k |-> "none", n |-> 0, s |-> <<>>]

VInt(i) == [d |-> FALSE, hv |-> FALSE, m |-> "", k |-> "int", n |-> i, s |-> <<>>]

VFloat(i) == [d |-> FALSE, hv |-> FALSE, m |-> "", k |-> "float", n |-> i, s |-> <<>>]

VStr(str) == [d |-> FALSE, hv |-> FALSE, m |-> "", k |-> "str", n |-> 0, s |-> str]

\* {"value": inner, "meta": meta}
VCell(inner, meta) == [inner EXCEPT !.d = TRUE, !.hv = TRUE, !.m = meta]

\* a dict cell that has no "value" key
VBare(meta) == [d |-> TRUE, hv |-> FALSE, m |-> meta, k |-> "none", n |-> 0, s |-> <<>>]

\* Python: v == 0 (0, 0.0)
EqZero(v) == ~v.d /\ v.k \in {"int", "float"} /\ v.n = 0

IsNone(v) == ~v.d /\ v.k = "none"

\* Python truthiness of a value cell
ValTruthy(v) ==
  IF v.d THEN TRUE
  ELSE IF v.k = "none" THEN FALSE
  ELSE IF v.k = "str" THEN v.s # <<>>
  ELSE v.n # 0

\* str(v)
StrOf(v) ==
  IF v.d THEN <<"{", v.m, "}">>
  ELSE IF v.k = "none" THEN <<"N", "o", "n", "e">>
  ELSE IF v.k = "int" THEN StrOfInt(v.n)
  ELSE IF v.k = "float" THEN StrOfInt(v.n) \o <<".", "0">>
  ELSE v.s

\* extract_value (local to match_line_items): v.get("value", v) of a dict
extract_value(v) ==
  IF v.d /\ v.hv THEN [v EXCEPT !.d = FALSE, !.hv = FALSE, !.m = ""] ELSE v

\* val in (0, None, "", "0")
InBlankTuple(val) ==
  \/ EqZero(val)
  \/ IsNone(val)
  \/ (~val.d /\ val.k = "str" /\ val.s \in {<<>>, <<"0">>})

\* the parenthesised-negative rewrite shared by both normalize_value closures
ParenToMinus(s) ==
  IF Len(s) >= 1 /\ s[1] = "(" /\ s[Len(s)] = ")"
  THEN <<"-">> \o SubSeq(s, 2, Len(s) - 1)
  ELSE s

\* normalize_value (local to match_line_items); None never reaches it
normalize_value(val) == ParenToMinus(Strip(RemoveChar(RemoveChar(StrOf(val), ","), " ")))

(***************************************************************************)
(* match_line_items                                                        *)
(***************************************************************************)
\* v1 / v2: the non-blank values of the overlap years, still in dict order
OverlapValues(values, overlap_years) ==
  SelectSeq(values,
            LAMBDA e : e.k \in overlap_years /\ ~InBlankTuple(extract_value(e.v)))

NormValues(values, overlap_years) ==
  {<<e.k, normalize_value(extract_value(e.v))>> :
     e \in Range(OverlapValues(values, overlap_years))}

GaapTier(item1, item2, ignore_gaap) ==
  ~ignore_gaap /\ Truthy(item1.item_gaap) /\ item1.item_gaap = item2.item_gaap

\* a matcher without the label tier
LabelTierNever(item1, item2) == FALSE

LabelTier(item1, item2) ==
  normalize_label(item1.item_label) = normalize_label(item2.item_label)

ValueTier(item1, item2, overlap_years) ==
  LET oy == {normalize_year_key(y) : y \in overlap_years}
      v1_norm == NormValues(item1.values, oy)
      v2_norm == NormValues(item2.values, oy)
  IN v1_norm # {} /\ v2_norm # {} /\ v1_norm = v2_norm

match_line_items(item1, item2, overlap_years, ignore_gaap) ==
  IF GaapTier(item1, item2, ignore_gaap) THEN TRUE
  ELSE IF LabelTier(item1, item2) THEN TRUE
  ELSE ValueTier(item1, item2, overlap_years)

(***************************************************************************)
(* Flattened rows                                                          *)
(*   a period document (filing): [isdict, keys, periods, sections]; keys   *)
(*   is the set of top-level keys it has.  A section: [gaap, section,      *)
(*   items]; an item: [gaap, label, has_values, values].                   *)
(***************************************************************************)
normalize_values(values) ==
  LET RECURSIVE Go(_, _)
      Go(i, new_vals) ==
        IF i > Len(values) THEN new_vals
        ELSE Go(i + 1, DPut(new_vals, normalize_year_key(values[i].k), values[i].v))
  IN Go(1, <<>>)

\* the rows of one section, numbered from 0
SectionRows(section) ==
  [idx \in DOMAIN section.items |->
     [section_gaap |-> section.gaap,
      section_label |-> section.section,
      item_gaap |-> section.items[idx].gaap,
      item_label |-> section.items[idx].label,
      values |-> IF section.items[idx].has_values
                 THEN normalize_values(section.items[idx].values) ELSE <<>>,
      position |-> idx - 1,
      force_label_only |-> FALSE]]

\* the returned list `flat`; a filing that is no dict makes filing.get raise
flatten_with_positions(filing) ==
  LET secs == IF "sections" \in filing.keys THEN filing.sections ELSE <<>>
      RECURSIVE Go(_)
      Go(i) == IF i > Len(secs) THEN <<>> ELSE SectionRows(secs[i]) \o Go(i + 1)
  IN Go(1)

\* the filing as flatten_with_positions leaves it: filing["periods"] is assigned
FilingAfterFlatten(filing) ==
  [filing EXCEPT
     !.keys = @ \cup {"periods"},
     !.periods = IF "periods" \in filing.keys
                 THEN [i \in DOMAIN filing.periods |-> normalize_year_key(filing.periods[i])]
                 ELSE <<>>]

_sec_key(gaap, label) == IF Truthy(gaap) THEN gaap ELSE normalize_label(label)

RowSecKey(r) == _sec_key(r.section_gaap, r.section_label)

\* a detection that finds no colliding tag
NoCollisions(section_rows) == {}

detect_gaap_collisions(section_rows) ==
  {g \in {section_rows[i].item_gaap : i \in DOMAIN section_rows} :
     /\ Truthy(g)
     /\ Cardinality({i \in DOMAIN section_rows : section_rows[i].item_gaap = g}) > 1}

\* a flagging that leaves every row as it is
Unflagged(rows) == rows

\* in place on rows: the rows after the call
_flag_duplicate_section_gaaps_label_only(rows) ==
  LET RECURSIVE Go(_, _, _)
      Go(i, first_label_for_gaap, out) ==
        IF i > Len(rows) THEN out
        ELSE LET r == rows[i]
                 g == Strip(IF Truthy(r.section_gaap) THEN r.section_gaap ELSE <<>>)
                 lbl_norm == normalize_label(r.section_label)
             IN IF g = <<>> THEN Go(i + 1, first_label_for_gaap, Append(out, r))
                ELSE IF ~DHas(first_label_for_gaap, g)
                THEN Go(i + 1, DPut(first_label_for_gaap, g, lbl_norm), Append(out, r))
                ELSE IF DGet(first_label_for_gaap, g) # lbl_norm
                THEN Go(i + 1, first_label_for_gaap,
                        Append(out, [r EXCEPT !.section_gaap = <<>>,
                                              !.force_label_only = TRUE]))
                ELSE Go(i + 1, first_label_for_gaap, Append(out, r))
  IN Go(1, <<>>, <<>>)

(***************************************************************************)
(* The unified catalog: an association list key -> payload                 *)
(***************************************************************************)
PayloadSecKey(p) == _sec_key(p.section_gaap, p.section_label)

\* sec_key -> list of payloads, in catalog order
_build_unified_section_index(unified) ==
  LET RECURSIVE Go(_, _)
      Go(i, idx) ==
        IF i > Len(unified) THEN idx
        ELSE LET sk == PayloadSecKey(unified[i].v)
             IN Go(i + 1, DPut(idx, sk, (IF DHas(idx, sk) THEN DGet(idx, sk) ELSE <<>>)
                                         \o <<unified[i].v>>))
  IN Go(1, <<>>)

_same_section_gate(g1, l1, g2, l2) ==
  (Truthy(g1) /\ g1 = g2) \/ (normalize_label(l1) = normalize_label(l2))

\* sec_key -> [gaap, label] of the first payload of the section
_list_unified_sections(unified) ==
  LET RECURSIVE Go(_, _)
      Go(i, secmap) ==
        IF i > Len(unified) THEN secmap
        ELSE LET p == unified[i].v
                 sk == PayloadSecKey(p)
             IN Go(i + 1, IF DHas(secmap, sk) THEN secmap
                          ELSE DPut(secmap, sk, [gaap |-> p.section_gaap,
                                                 label |-> p.section_label]))
  IN Go(1, <<>>)

_candidate_sections_in_order(section_rows) ==
  LET RECURSIVE Go(_, _)
      Go(i, seen) ==
        IF i > Len(section_rows) THEN seen
        ELSE LET r == section_rows[i]
                 sk == RowSecKey(r)
             IN Go(i + 1, IF DHas(seen, sk) THEN seen
                          ELSE DPut(seen, sk, [gaap |-> r.section_gaap,
                                               label |-> r.section_label]))
  IN Go(1, <<>>)

\* the key of the first entry of an association list whose index lies in S; NoneV
\* when S is empty ("for ...: if ...: break")
FirstKeyIn(S, list) ==
  IF S = {} THEN NoneV ELSE list[CHOOSE j \in S : \A h \in S : j <= h].k

\* a choice of section that does not look at what is used already
FirstFreeSectionReusing(unified_secs, used_unified, cg, cl) ==
  FirstKeyIn({j \in DOMAIN unified_secs :
                _same_section_gate(unified_secs[j].v.gaap, unified_secs[j].v.label,
                                   cg, cl)},
             unified_secs)

\* the first unified section, not yet used, that passes the gate; NoneV if none
FirstFreeSection(unified_secs, used_unified, cg, cl) ==
  FirstKeyIn({j \in DOMAIN unified_secs :
                /\ unified_secs[j].k \notin used_unified
                /\ _same_section_gate(unified_secs[j].v.gaap, unified_secs[j].v.label,
                                      cg, cl)},
             unified_secs)

\* "for sk_c in cand_secs.keys()" from its i-th turn on
RECURSIVE GreedySections(_, _, _, _, _)
GreedySections(i, used_unified, greedy_map, unified_secs, cand_secs) ==
  IF i > Len(cand_secs) THEN greedy_map
  ELSE LET Bind(match_sk_u) ==
             GreedySections(i + 1,
                            IF match_sk_u = NoneV THEN used_unified
                            ELSE used_unified \cup {match_sk_u},
                            DPut(greedy_map, cand_secs[i].k, match_sk_u),
                            unified_secs, cand_secs)
       IN Bind(FirstFreeSection(unified_secs, used_unified,
                                cand_secs[i].v.gaap, cand_secs[i].v.label))

\* {candidate_sec_key: matched_unified_sec_key_or_None}
_build_greedy_section_map(unified, flat_rows_for_this_filing) ==
  GreedySections(1, {}, <<>>, _list_unified_sections(unified),
                 _candidate_sections_in_order(flat_rows_for_this_filing))

\* overlap_years of a candidate row and an existing payload
OverlapYears(cand, ex) == DKeys(cand.values) \cap DKeys(ex.values)

\* the rows of the filing that lie in section sk, in order
RowsOfSection(rows, sk) == SelectSeq(rows, LAMBDA r : RowSecKey(r) = sk)

\* the first entry of the pool, not yet used, that the candidate matches; NoneV if none
FirstFreeItem(cand, existing_pool, used_keys, ignore_gaap) ==
  FirstKeyIn({j \in DOMAIN existing_pool :
                /\ existing_pool[j].k \notin used_keys
                /\ match_line_items(cand, existing_pool[j].v,
                                    OverlapYears(cand, existing_pool[j].v), ignore_gaap)},
             existing_pool)

\* "for idx, cand in enumerate(section_rows)" from its idx-th turn on
RECURSIVE GreedyItems(_, _, _, _, _, _)
GreedyItems(idx, used_keys, greedy_map, existing_pool, section_rows, collision_gaaps) ==
  IF idx > Len(section_rows) THEN greedy_map
  ELSE LET Bind(key) ==
             GreedyItems(idx + 1,
                         IF key = NoneV THEN used_keys ELSE used_keys \cup {key},
                         Append(greedy_map, key),
                         existing_pool, section_rows, collision_gaaps)
       IN Bind(FirstFreeItem(section_rows[idx], existing_pool, used_keys,
                             section_rows[idx].item_gaap \in collision_gaaps))

\* {row_index -> preselected_unified_key}; a row without a pin maps to NoneV
_build_greedy_item_map(unified, allowed_sec_key, section_rows, collision_gaaps) ==
  IF allowed_sec_key = NoneV THEN [i \in DOMAIN section_rows |-> NoneV]
  ELSE GreedyItems(1, {}, <<>>,
                   SelectSeq(unified, LAMBDA e : PayloadSecKey(e.v) = allowed_sec_key),
                   section_rows, collision_gaaps)

(***************************************************************************)
(* _apply_fallback_section_matching.  Its report prints item labels sliced  *)
(* ([:50], [:60]) and so raises TypeError for a label that is None; the     *)
(* rows and payloads considered here carry str labels.                      *)
(***************************************************************************)
\* len(matched_items): the candidate rows that match some item of the section
MatchedCount(candidate_rows, existing_items, collision_gaaps) ==
  Cardinality({idx \in DOMAIN candidate_rows :
                 \E j \in DOMAIN existing_items :
                    match_line_items(candidate_rows[idx], existing_items[j],
                                     OverlapYears(candidate_rows[idx], existing_items[j]),
                                     candidate_rows[idx].item_gaap \in collision_gaaps)})

\* "for existing_sk in unified_by_sec.keys()" from its j-th turn on: best_match_sk.
\* best_count is the matched count of best_match_ratio; all ratios of one candidate
\* section are over the same len(candidate_rows), and ratio_threshold is 0.5
RECURSIVE BestSection(_, _, _, _)
BestSection(j, best_match_sk, best_count, c) ==
  IF j > Len(c.unified_by_sec) THEN best_match_sk
  ELSE IF c.unified_by_sec[j].k \in c.claimed
  THEN BestSection(j + 1, best_match_sk, best_count, c)
  ELSE LET Bind(n) ==
             IF 2 * n >= Len(c.candidate_rows) /\ n > best_count
             THEN BestSection(j + 1, c.unified_by_sec[j].k, n, c)
             ELSE BestSection(j + 1, best_match_sk, best_count, c)
       IN Bind(MatchedCount(c.candidate_rows, c.unified_by_sec[j].v, c.collision_gaaps))

\* what the search for one unmatched candidate section works with
FallbackContext(unified_by_sec, updated_map, candidate_rows) ==
  [unified_by_sec |-> unified_by_sec,
   claimed |-> {updated_map[n].v : n \in DOMAIN updated_map},
   candidate_rows |-> candidate_rows,
   collision_gaaps |-> detect_gaap_collisions(candidate_rows)]

\* "for candidate_sk, matched_unified_sk in greedy_sec_map.items()" from its i-th
\* turn on
RECURSIVE FallbackSections(_, _, _, _, _)
FallbackSections(i, updated_map, greedy_sec_map, unified_by_sec, rows) ==
  IF i > Len(greedy_sec_map) THEN updated_map
  ELSE IF greedy_sec_map[i].v # NoneV
  THEN FallbackSections(i + 1, updated_map, greedy_sec_map, unified_by_sec, rows)
  ELSE LET Bind(best_match_sk) ==
             FallbackSections(i + 1,
                              IF best_match_sk = NoneV THEN updated_map
                              ELSE DPut(updated_map, greedy_sec_map[i].k, best_match_sk),
                              greedy_sec_map, unified_by_sec, rows)
       IN Bind(BestSection(1, NoneV, 0,
                           FallbackContext(unified_by_sec, updated_map,
                                           RowsOfSection(rows, greedy_sec_map[i].k))))

_apply_fallback_section_matching(unified, flat_rows_for_this_filing, greedy_sec_map) ==
  FallbackSections(1, greedy_sec_map, greedy_sec_map,
                   _build_unified_section_index(unified), flat_rows_for_this_filing)

(***************************************************************************)
(* build_unified_catalog: the merge of one period                          *)
(***************************************************************************)
\* yr[:4]
First4(yr) == SubSeq(yr, 1, IF Len(yr) < 4 THEN Len(yr) ELSE 4)

FirstValueKey(values) == values[1].k

\* int(...) > int(...) raises ValueError when either side is no numeral
OverwriteRaises(yr, values) ==
  \/ ~IntOk(normalize_year_key(First4(yr)))
  \/ ~IntOk(normalize_year_key(FirstValueKey(values)))

\* int(normalize_year_key(yr[:4])) > int(normalize_year_key(list(values.keys())[0]))
OverwriteCond(yr, values) ==
  IntOf(normalize_year_key(First4(yr))) > IntOf(normalize_year_key(FirstValueKey(values)))

\* v if v is not None else 0.0
CleanValue(v) == IF IsNone(v) THEN VFloat(0) ELSE v

\* one of the two "merge the row into the matched entry" loops; clean tells the
\* second loop, which writes clean_v.  [exc, values]
MergeRowValues(entry_values, row_values, yr, clean) ==
  LET RECURSIVE Go(_, _)
      Go(i, vals) ==
        IF i > Len(row_values) THEN [exc |-> FALSE, values |-> vals]
        ELSE LET y == row_values[i].k
                 v == IF clean THEN CleanValue(row_values[i].v) ELSE row_values[i].v
             IN IF ~DHas(vals, y) THEN Go(i + 1, DPut(vals, y, v))
                ELSE IF OverwriteRaises(yr, vals) THEN [exc |-> TRUE, values |-> vals]
                ELSE IF OverwriteCond(yr, vals) THEN Go(i + 1, DPut(vals, y, v))
                ELSE Go(i + 1, vals)
  IN Go(1, entry_values)

\* matched_key.startswith("review_needed")
StartsWithReviewNeeded(key) == key # <<>> /\ key[1] = "review_needed"

ItemKey(row, ignore_gaap) ==
  IF ignore_gaap THEN normalize_label(row.item_label)
  ELSE IF Truthy(row.item_gaap) THEN row.item_gaap
  ELSE normalize_label(row.item_label)

\* f"{itm_key}|{sec}"
UnifiedKey(itm_key, sec) == itm_key \o <<"|">> \o sec

NewPayload(row) ==
  [section_gaap |-> row.section_gaap,
   section_label |-> row.section_label,
   item_gaap |-> row.item_gaap,
   item_label |-> row.item_label,
   values |-> [i \in DOMAIN row.values |->
                 [k |-> row.values[i].k, v |-> CleanValue(row.values[i].v)]]]

\* the same-section gate and the re-check of the preselected key: matched_key
MatchedKey(unified, row, pre_key, ignore_gaap) ==
  IF pre_key = NoneV THEN NoneV
  ELSE LET existing == DGet(unified, pre_key)
           same_section ==
             \/ (Truthy(existing.section_gaap) /\ existing.section_gaap = row.section_gaap)
             \/ normalize_label(existing.section_label) = normalize_label(row.section_label)
       IN IF same_section
             /\ match_line_items(row, existing, OverlapYears(existing, row), ignore_gaap)
          THEN pre_key ELSE NoneV

\* the second "merge the row" loop runs when the first one did not raise
SecondBlock(b1, row_values, yr) ==
  IF b1.exc THEN b1 ELSE MergeRowValues(b1.values, row_values, yr, TRUE)

\* the matched entry with its values replaced
WriteMerged(unified, matched_key, done) ==
  [exc |-> done.exc,
   unified |-> DPut(unified, matched_key,
                    [DGet(unified, matched_key) EXCEPT !.values = done.values]),
   how |-> "merged", key |-> matched_key]

\* unified[key] = {...}: an entry of the same key is replaced
CreateEntry(unified, row, key) ==
  [exc |-> FALSE, unified |-> DPut(unified, key, NewPayload(row)),
   how |-> "created", key |-> key]

\* lines 845-902 for a known matched_key
MergeRowAt(unified, row, sec, ignore_gaap, yr, matched_key) ==
  IF matched_key # NoneV /\ ~StartsWithReviewNeeded(matched_key)
  THEN WriteMerged(unified, matched_key,
                   SecondBlock(MergeRowValues(DGet(unified, matched_key).values,
                                              row.values, yr, FALSE),
                               row.values, yr))
  ELSE IF matched_key = NoneV
  THEN CreateEntry(unified, row, UnifiedKey(ItemKey(row, ignore_gaap), sec))
  ELSE [exc |-> FALSE, unified |-> unified, how |-> "dropped", key |-> matched_key]

\* the body of "for row_idx, row in enumerate(section_rows)": [exc, unified, how, key]
MergeRow(unified, row, sec, pre_key, ignore_gaap, yr) ==
  MergeRowAt(unified, row, sec, ignore_gaap, yr,
             MatchedKey(unified, row, pre_key, ignore_gaap))

\* lines 786-803: the rows after the section metadata of every bound candidate
\* section is overwritten, one candidate after the other
RewriteSections(unified, rows, greedy_sec_map) ==
  LET unified_by_sec == _build_unified_section_index(unified)
      RECURSIVE Go(_, _)
      Go(i, rs) ==
        IF i > Len(greedy_sec_map) THEN rs
        ELSE LET candidate_sk == greedy_sec_map[i].k
                 target_sk == greedy_sec_map[i].v
             IN IF target_sk # NoneV /\ candidate_sk # target_sk
                   /\ DHas(unified_by_sec, target_sk)
                THEN LET t == DGet(unified_by_sec, target_sk)[1]
                     IN Go(i + 1,
                           [j \in DOMAIN rs |->
                              IF RowSecKey(rs[j]) = candidate_sk
                              THEN [rs[j] EXCEPT !.section_gaap = t.section_gaap,
                                                 !.section_label = t.section_label]
                              ELSE rs[j]])
                ELSE Go(i + 1, rs)
  IN Go(1, rows)

\* section_groups: sec -> the indices (into rows) of its rows, first appearance first
SectionGroups(rows) ==
  LET secs == _candidate_sections_in_order(rows)
  IN [i \in DOMAIN secs |->
        [k |-> secs[i].k,
         v |-> SelectSeq([j \in DOMAIN rows |-> j], LAMBDA j : RowSecKey(rows[j]) = secs[i].k)]]

\* greedy_sec_map.get(sec)
SecMapGet(greedy_sec_map, sec) ==
  IF DHas(greedy_sec_map, sec) THEN DGet(greedy_sec_map, sec) ELSE NoneV

\* "for row_idx, row in enumerate(section_rows)" from its row_idx-th turn on; c holds
\* what the loop does not change.  log records, per row, the entry it was written to
RECURSIVE MergeRows(_, _, _, _)
MergeRows(row_idx, u, log, c) ==
  IF row_idx > Len(c.section_rows) THEN [exc |-> FALSE, unified |-> u, log |-> log]
  ELSE LET Bind(res) ==
             IF res.exc
             THEN [exc |-> TRUE, unified |-> res.unified,
                   log |-> Append(log, [period |-> c.period, sec |-> c.sec,
                                        target |-> c.allowed_unified_sk,
                                        row |-> c.idxs[row_idx],
                                        how |-> res.how, key |-> res.key])]
             ELSE MergeRows(row_idx + 1, res.unified,
                            Append(log, [period |-> c.period, sec |-> c.sec,
                                         target |-> c.allowed_unified_sk,
                                         row |-> c.idxs[row_idx],
                                         how |-> res.how, key |-> res.key]),
                            c)
       IN Bind(MergeRow(u, c.section_rows[row_idx], c.sec,
                        IF c.allowed_unified_sk # NoneV THEN c.greedy_item_map[row_idx]
                        ELSE NoneV,
                        c.section_rows[row_idx].item_gaap \in c.collision_gaaps, c.yr))

\* lines 812-819: what the row loop of a section works with
SectionContext(unified, section_rows, collision_gaaps, allowed_unified_sk, period, sec, idxs, yr) ==
  [section_rows |-> section_rows, collision_gaaps |-> collision_gaaps,
   allowed_unified_sk |-> allowed_unified_sk,
   greedy_item_map |-> _build_greedy_item_map(unified, allowed_unified_sk, section_rows,
                                              collision_gaaps),
   period |-> period, sec |-> sec, idxs |-> idxs, yr |-> yr]

MergeSectionRows(unified, section_rows, allowed_unified_sk, period, sec, idxs, yr) ==
  MergeRows(1, unified, <<>>,
            SectionContext(unified, section_rows, detect_gaap_collisions(section_rows),
                           allowed_unified_sk, period, sec, idxs, yr))

\* "for sec, section_rows in section_groups.items()": one section of the period.
\* [exc, unified, log]
MergeSection(unified, rows, period, sec, idxs, greedy_sec_map, yr) ==
  MergeSectionRows(unified, [i \in DOMAIN idxs |-> rows[idxs[i]]],
                   SecMapGet(greedy_sec_map, sec), period, sec, idxs, yr)

\* "for sec, section_rows in section_groups.items()" from its i-th turn on.
\* [exc, unified, rows, sec_map, log]
RECURSIVE MergeSections(_, _, _, _)
MergeSections(i, u, log, c) ==
  IF i > Len(c.section_groups)
  THEN [exc |-> FALSE, unified |-> u, rows |-> c.rows,
        sec_map |-> c.greedy_sec_map, log |-> log]
  ELSE LET Bind(r) ==
             IF r.exc
             THEN [exc |-> TRUE, unified |-> r.unified, rows |-> c.rows,
                   sec_map |-> c.greedy_sec_map, log |-> log \o r.log]
             ELSE MergeSections(i + 1, r.unified, log \o r.log, c)
       IN Bind(MergeSection(u, c.rows, c.period, c.section_groups[i].k,
                            c.section_groups[i].v, c.greedy_sec_map, c.yr))

\* the period once its sections are grouped and bound
MergePeriodWith(unified, rows0, period, yr, section_groups, greedy_sec_map) ==
  MergeSections(1, unified, <<>>,
                [section_groups |-> section_groups, greedy_sec_map |-> greedy_sec_map,
                 rows |-> RewriteSections(unified, rows0, greedy_sec_map),
                 period |-> period, yr |-> yr])

\* the body of "for _, rows in flat_all.items()": [exc, unified, rows, sec_map, log]
MergePeriod(unified, rows0, period, yr) ==
  MergePeriodWith(unified, rows0, period, yr, SectionGroups(rows0),
                  _build_greedy_section_map(unified, rows0))

(***************************************************************************)
(* Sorting (list.sort / sorted are stable)                                 *)
(***************************************************************************)
\* a sort key is a tuple of int and str components
KInt(n) == [isstr |-> FALSE, n |-> n, s |-> <<>>]

KStr(str) == [isstr |-> TRUE, n |-> 0, s |-> str]

CompLess(a, b) == IF a.isstr THEN StrLess(a.s, b.s) ELSE a.n < b.n

\* Python's < on tuples
RECURSIVE KeyLess(_, _)
KeyLess(a, b) ==
  IF a = <<>> \/ b = <<>> THEN a = <<>> /\ b # <<>>
  ELSE IF Head(a) # Head(b) THEN CompLess(Head(a), Head(b))
  ELSE KeyLess(Tail(a), Tail(b))

\* insertion sort over [key, item]: x goes behind every element that is not greater
RECURSIVE InsertByKey(_, _)
InsertByKey(sorted, x) ==
  IF sorted = <<>> THEN <<x>>
  ELSE IF KeyLess(x.key, Head(sorted).key) THEN <<x>> \o sorted
  ELSE <<Head(sorted)>> \o InsertByKey(Tail(sorted), x)

\* list.sort(key=...) / sorted(...): stable
RECURSIVE SortByKey(_)
SortByKey(seq) ==
  IF seq = <<>> THEN <<>>
  ELSE InsertByKey(SortByKey(SubSeq(seq, 1, Len(seq) - 1)), seq[Len(seq)])

ItemsOf(keyed) == [i \in DOMAIN keyed |-> keyed[i].item]

Reverse(seq) == [i \in DOMAIN seq |-> seq[Len(seq) + 1 - i]]

\* sorted(keys, reverse=True) on str: equal elements keep their order
SortedDesc(keys) ==
  Reverse(ItemsOf(SortByKey(Reverse([i \in DOMAIN keys |->
                                       [key |-> <<KStr(keys[i])>>, item |-> keys[i]]]))))

\* sorted(set) on str; the set is first listed in some order, the result is unique
RECURSIVE SetToSortedSeq(_)
SetToSortedSeq(S) ==
  IF S = {} THEN <<>>
  ELSE LET m == CHOOSE x \in S : \A y \in S : y = x \/ StrLess(x, y)
       IN <<m>> \o SetToSortedSeq(S \ {m})

(***************************************************************************)
(* zero_out_overlapping_years_for_new_items                                *)
(***************************************************************************)
RowYears(rows) == UNION {DKeys(rows[i].values) : i \in DOMAIN rows}

\* year_to_authoritative_filing: the first filing, newest first, that has the year
HasAuthoritative(flat_all, years_sorted, year) ==
  \E i \in DOMAIN years_sorted : year \in RowYears(DGet(flat_all, years_sorted[i]))

AuthoritativeFiling(flat_all, years_sorted, year) ==
  years_sorted[CHOOSE i \in DOMAIN years_sorted :
                 /\ year \in RowYears(DGet(flat_all, years_sorted[i]))
                 /\ \A j \in 1..(i - 1) : year \notin RowYears(DGet(flat_all, years_sorted[j]))]

\* values.get(year): VNone when the key is absent
ValGet(values, year) == IF DHas(values, year) THEN DGet(values, year) ELSE VNone

\* the dict unwrapping of zero_out: v.get("value")
ZeroOutExtract(v) ==
  IF v.d THEN (IF v.hv THEN [v EXCEPT !.d = FALSE, !.hv = FALSE, !.m = ""] ELSE VNone)
  ELSE v

\* normalize_value (local to zero_out): None for None and 0, else the cleaned str
ZeroOutNormalize(v) ==
  IF IsNone(v) \/ EqZero(v) THEN NoneV
  ELSE ParenToMinus(Strip(RemoveChar(RemoveChar(StrOf(v), ","), " ")))

ZeroOutGaapTier(payload, auth_item) ==
  Truthy(payload.item_gaap) /\ Truthy(auth_item.item_gaap)
  /\ payload.item_gaap = auth_item.item_gaap

ZeroOutLabelTier(payload, auth_item) ==
  LET unified_label == normalize_label(payload.item_label)
      auth_label == normalize_label(auth_item.item_label)
  IN unified_label # <<>> /\ auth_label # <<>> /\ unified_label = auth_label

ZeroOutValueTier(payload, auth_item, year) ==
  LET unified_year_val == ValGet(payload.values, year)
      auth_year_val == ValGet(auth_item.values, year)
  IN /\ ValTruthy(unified_year_val)
     /\ ValTruthy(auth_year_val)
     /\ LET unified_norm == ZeroOutNormalize(ZeroOutExtract(unified_year_val))
            auth_norm == ZeroOutNormalize(ZeroOutExtract(auth_year_val))
        IN Truthy(unified_norm) /\ Truthy(auth_norm) /\ unified_norm = auth_norm

\* found_match of one (payload, year)
FoundMatch(payload, auth_section_items, year) ==
  \E i \in DOMAIN auth_section_items :
     \/ ZeroOutGaapTier(payload, auth_section_items[i])
     \/ ZeroOutLabelTier(payload, auth_section_items[i])
     \/ ZeroOutValueTier(payload, auth_section_items[i], year)

\* a reconciliation that leaves a value alone when the authoritative period has no
\* rows in the section of the entry
ZeroedYearOnlyInPresentSection(payload, flat_all, years_sorted, year) ==
  /\ HasAuthoritative(flat_all, years_sorted, year)
  /\ ~EqZero(DGet(payload.values, year))
  /\ RowsOfSection(DGet(flat_all, AuthoritativeFiling(flat_all, years_sorted, year)),
                   PayloadSecKey(payload)) # <<>>
  /\ ~FoundMatch(payload,
                 RowsOfSection(DGet(flat_all,
                                    AuthoritativeFiling(flat_all, years_sorted, year)),
                               PayloadSecKey(payload)),
                 year)

\* whether the year of the payload is set to 0.0
ZeroedYear(payload, flat_all, years_sorted, year) ==
  /\ HasAuthoritative(flat_all, years_sorted, year)
  /\ ~EqZero(DGet(payload.values, year))
  /\ LET auth_section_items ==
           RowsOfSection(DGet(flat_all, AuthoritativeFiling(flat_all, years_sorted, year)),
                         PayloadSecKey(payload))
     IN auth_section_items = <<>> \/ ~FoundMatch(payload, auth_section_items, year)

\* a reconciliation that deletes the period keys it would set to 0.0
ZeroOutPayloadDropping(payload, flat_all, years_sorted) ==
  [payload EXCEPT !.values =
     SelectSeq(payload.values,
               LAMBDA c : ~ZeroedYear(payload, flat_all, years_sorted, c.k))]

ZeroOutPayload(payload, flat_all, years_sorted) ==
  [payload EXCEPT !.values =
     [i \in DOMAIN payload.values |->
        IF ZeroedYear(payload, flat_all, years_sorted, payload.values[i].k)
        THEN [k |-> payload.values[i].k, v |-> VFloat(0)]
        ELSE payload.values[i]]]

\* in place on unified: the catalog after the call
zero_out_overlapping_years_for_new_items(unified, flat_all, years_sorted) ==
  [i \in DOMAIN unified |->
     [k |-> unified[i].k, v |-> ZeroOutPayload(unified[i].v, flat_all, years_sorted)]]

(***************************************************************************)
(* build_unified_catalog: section labels of the latest year, ordering      *)
(***************************************************************************)
\* lines 907-921
CanonicalizeSections(unified, latest_rows) ==
  LET latest_section_labels == _candidate_sections_in_order(latest_rows)
  IN [i \in DOMAIN unified |->
        LET sk == PayloadSecKey(unified[i].v)
        IN IF DHas(latest_section_labels, sk)
           THEN [k |-> unified[i].k,
                 v |-> [unified[i].v EXCEPT
                          !.section_label = DGet(latest_section_labels, sk).label,
                          !.section_gaap = DGet(latest_section_labels, sk).gaap]]
           ELSE unified[i]]

_item_identity_for_positions(row, collision_gaaps) ==
  IF row.item_gaap \in collision_gaaps THEN normalize_label(row.item_label)
  ELSE IF Truthy(row.item_gaap) THEN row.item_gaap
  ELSE normalize_label(row.item_label)

\* positions_map: <<sec_key, item_key>> -> {year: position}; the years are visited
\* newest first and a later row of the same identity overwrites the position
PositionsMap(flat_all, years_sorted) ==
  LET RECURSIVE Rows(_, _, _, _)
      Rows(rows, i, yr, pm) ==
        IF i > Len(rows) THEN pm
        ELSE LET r == rows[i]
                 sk == RowSecKey(r)
                 ik == _item_identity_for_positions(
                         r, detect_gaap_collisions(RowsOfSection(rows, sk)))
                 old == IF DHas(pm, <<sk, ik>>) THEN DGet(pm, <<sk, ik>>) ELSE <<>>
             IN Rows(rows, i + 1, yr, DPut(pm, <<sk, ik>>, DPut(old, yr, r.position)))
      RECURSIVE Years(_, _)
      Years(y, pm) ==
        IF y > Len(years_sorted) THEN pm
        ELSE Years(y + 1, Rows(DGet(flat_all, years_sorted[y]), 1, years_sorted[y], pm))
  IN Years(1, <<>>)

\* latest_section_order: sec_key -> index of first appearance in the latest year
LatestSectionOrder(latest_rows) ==
  LET secs == _candidate_sections_in_order(latest_rows)
  IN [i \in DOMAIN secs |-> [k |-> secs[i].k, v |-> i - 1]]

\* the place of the last "|" of a key, 0 when it has none
LastBar(key) ==
  IF \E i \in DOMAIN key : key[i] = "|"
  THEN CHOOSE i \in DOMAIN key : key[i] = "|" /\ \A j \in (i + 1)..Len(key) : key[j] # "|"
  ELSE 0

\* (sec_key, itm_key_guess) of a key that does not start with "review_needed|"
_parse_unified_key(orig_key) ==
  IF LastBar(orig_key) # 0
  THEN [sec |-> SubSeq(orig_key, LastBar(orig_key) + 1, Len(orig_key)),
        itm |-> SubSeq(orig_key, 1, LastBar(orig_key) - 1)]
  ELSE [sec |-> <<>>, itm |-> orig_key]

_item_identity_from_unified_key(key, payload, sk) ==
  LET parsed == _parse_unified_key(key)
  IN IF parsed.sec # <<>> /\ parsed.sec # sk
     THEN (IF Truthy(payload.item_gaap) THEN payload.item_gaap
           ELSE normalize_label(payload.item_label))
     ELSE parsed.itm

BigPos == 1000000000

\* pos_by_year of a catalog entry that lies in section sk
PosByYear(positions_map, sk, key, payload) ==
  LET ik == _item_identity_from_unified_key(key, payload, sk)
  IN IF DHas(positions_map, <<sk, ik>>) THEN DGet(positions_map, <<sk, ik>>) ELSE <<>>

\* the position an older-only entry is ordered by
OlderPos(pos_by_year, years_sorted) ==
  IF \E i \in DOMAIN years_sorted : DHas(pos_by_year, years_sorted[i])
  THEN DGet(pos_by_year,
            years_sorted[CHOOSE i \in DOMAIN years_sorted :
                           /\ DHas(pos_by_year, years_sorted[i])
                           /\ \A j \in 1..(i - 1) : ~DHas(pos_by_year, years_sorted[j])])
  ELSE BigPos

\* anchor_index_for_pos, zero based; len(spine_positions) when p exceeds them all
anchor_index_for_pos(spine_positions, p) ==
  IF \E i \in DOMAIN spine_positions : p <= spine_positions[i]
  THEN (CHOOSE i \in DOMAIN spine_positions :
          p <= spine_positions[i] /\ \A j \in 1..(i - 1) : ~(p <= spine_positions[j])) - 1
  ELSE Len(spine_positions)

\* spine_positions.index(p), zero based
SpineIndex(spine_positions, p) ==
  (CHOOSE i \in DOMAIN spine_positions :
     spine_positions[i] = p /\ \A j \in 1..(i - 1) : spine_positions[j] # p) - 1

\* an entry with what the ordering reads of it
PosEntry(item, pos_by_year, years_sorted) ==
  [k |-> item.k, v |-> item.v,
   latest |-> DHas(pos_by_year, years_sorted[1]),
   pos |-> IF DHas(pos_by_year, years_sorted[1]) THEN DGet(pos_by_year, years_sorted[1])
           ELSE OlderPos(pos_by_year, years_sorted),
   label |-> normalize_label(item.v.item_label)]

\* latest_items.sort(key=lambda t: (t[0], normalize_label(...)))
SpineOf(latest_items) ==
  ItemsOf(SortByKey([i \in DOMAIN latest_items |->
                       [key |-> <<KInt(latest_items[i].pos), KStr(latest_items[i].label)>>,
                        item |-> latest_items[i]]]))

\* the (anchor, flag, label) sort keys of the older-only entries and of the spine
Sortable(spine, older_only_items, spine_positions) ==
  [i \in DOMAIN older_only_items |->
     [anchor |-> anchor_index_for_pos(spine_positions, older_only_items[i].pos),
      flag |-> 0, label |-> older_only_items[i].label,
      k |-> older_only_items[i].k, v |-> older_only_items[i].v]]
  \o
  [i \in DOMAIN spine |->
     [anchor |-> SpineIndex(spine_positions, spine[i].pos),
      flag |-> 1, label |-> spine[i].label, k |-> spine[i].k, v |-> spine[i].v]]

\* sortable.sort(key=lambda t: (t[0], t[1], t[2]))
SortSortable(sortable) ==
  ItemsOf(SortByKey([i \in DOMAIN sortable |->
                       [key |-> <<KInt(sortable[i].anchor), KInt(sortable[i].flag),
                                  KStr(sortable[i].label)>>,
                        item |-> sortable[i]]]))

KeysAndPayloads(final) == [i \in DOMAIN final |-> [k |-> final[i].k, v |-> final[i].v]]

\* an arrangement that emits the spine only
ArrangeSpineOnly(spine, older_only_items) == KeysAndPayloads(spine)

ArrangeSection(spine, older_only_items) ==
  KeysAndPayloads(
    SortSortable(Sortable(spine, older_only_items,
                          [i \in DOMAIN spine |-> spine[i].pos])))

SplitSection(withpos) ==
  ArrangeSection(SpineOf(SelectSeq(withpos, LAMBDA t : t.latest)),
                 SelectSeq(withpos, LAMBDA t : ~t.latest))

\* the entries of one section in their final order
OrderSection(items, sk, positions_map, years_sorted) ==
  SplitSection([i \in DOMAIN items |->
                  PosEntry(items[i],
                           PosByYear(positions_map, sk, items[i].k, items[i].v),
                           years_sorted)])

\* by_section: sec_key -> the entries of the section, in catalog order
RECURSIVE BySection(_, _, _)
BySection(unified, i, idx) ==
  IF i > Len(unified) THEN idx
  ELSE BySection(unified, i + 1,
                 DPut(idx, PayloadSecKey(unified[i].v),
                      (IF DHas(idx, PayloadSecKey(unified[i].v))
                       THEN DGet(idx, PayloadSecKey(unified[i].v)) ELSE <<>>)
                      \o <<unified[i]>>))

\* latest_section_order.get(sk, 10**9)
SectionRank(latest_section_order, sk) ==
  IF DHas(latest_section_order, sk) THEN DGet(latest_section_order, sk) ELSE BigPos

\* section_keys_sorted
SectionKeysSorted(by_section, latest_section_order) ==
  ItemsOf(SortByKey([i \in DOMAIN by_section |->
                       [key |-> <<KInt(SectionRank(latest_section_order, by_section[i].k))>>,
                        item |-> by_section[i].k]]))

\* "for sk in section_keys_sorted" from its i-th turn on
RECURSIVE EmitSections(_, _, _, _, _)
EmitSections(i, by_section, section_keys_sorted, positions_map, years_sorted) ==
  IF i > Len(section_keys_sorted) THEN <<>>
  ELSE OrderSection(DGet(by_section, section_keys_sorted[i]), section_keys_sorted[i],
                    positions_map, years_sorted)
       \o EmitSections(i + 1, by_section, section_keys_sorted, positions_map, years_sorted)

OrderSections(by_section, positions_map, latest_section_order, years_sorted) ==
  EmitSections(1, by_section, SectionKeysSorted(by_section, latest_section_order),
               positions_map, years_sorted)

\* by_section and section_keys_sorted, then the sections one after the other
OrderCatalog(unified, positions_map, latest_section_order, years_sorted) ==
  OrderSections(BySection(unified, 1, <<>>), positions_map, latest_section_order,
                years_sorted)

\* sorted union of the years of all rows of all filings
_collect_all_target_years(flat_all) ==
  SetToSortedSeq(UNION {RowYears(flat_all[i].v) : i \in DOMAIN flat_all})

\* a padding that fills the absent years and leaves a stored None alone
PadValuesAbsentOnly(vals, target_years) ==
  vals \o [i \in 1..Len(SelectSeq(target_years, LAMBDA y : ~DHas(vals, y))) |->
             [k |-> SelectSeq(target_years, LAMBDA y : ~DHas(vals, y))[i],
              v |-> VFloat(0)]]

PadValues(vals, target_years) ==
  LET RECURSIVE Go(_, _)
      Go(i, vs) ==
        IF i > Len(target_years) THEN vs
        ELSE IF ~DHas(vs, target_years[i]) \/ IsNone(DGet(vs, target_years[i]))
        THEN Go(i + 1, DPut(vs, target_years[i], VFloat(0)))
        ELSE Go(i + 1, vs)
  IN Go(1, vals)

\* in place on mapping: the mapping after the call
_pad_missing_years_in_mapping(mapping, target_years) ==
  [i \in DOMAIN mapping |->
     [k |-> mapping[i].k,
      v |-> [mapping[i].v EXCEPT !.values = PadValues(@, target_years)]]]

(***************************************************************************)
(* build_unified_catalog as a whole                                        *)
(*   years_json maps a period key to the statement document of the period *)
(*   (the one-key wrapper {stmt_type: doc} is left out).                   *)
(***************************************************************************)
\* lines 743-748: period key -> flattened rows
FlatAll(years_json) ==
  [i \in DOMAIN years_json |->
     [k |-> years_json[i].k,
      v |-> _flag_duplicate_section_gaaps_label_only(
              flatten_with_positions(years_json[i].v))]]

Prepared(years_json, flat_all, years_sorted) ==
  [exc |-> FALSE,
   years_json |-> [i \in DOMAIN years_json |->
                     [k |-> years_json[i].k, v |-> FilingAfterFlatten(years_json[i].v)]],
   flat_all |-> flat_all,
   yr |-> years_sorted[Len(years_sorted)],
   years_sorted |-> years_sorted,
   positions_map |-> PositionsMap(flat_all, years_sorted),
   latest_section_order |-> LatestSectionOrder(DGet(flat_all, years_sorted[1]))]

\* a filing that is no dict makes flatten_with_positions raise; the filings before
\* it have been flattened by then
FlattenedBeforeRaise(years_json) ==
  [i \in DOMAIN years_json |->
     IF \A j \in 1..i : years_json[j].v.isdict
     THEN [k |-> years_json[i].k, v |-> FilingAfterFlatten(years_json[i].v)]
     ELSE years_json[i]]

\* a preparation that reads filing["sections"]: a document without that key raises
PrepareStrict(years_json) ==
  IF years_json = <<>> \/ \E i \in DOMAIN years_json :
                            ~years_json[i].v.isdict \/ "sections" \notin years_json[i].v.keys
  THEN [exc |-> TRUE, years_json |-> years_json, flat_all |-> <<>>, yr |-> NoneV,
        years_sorted |-> <<>>, positions_map |-> <<>>, latest_section_order |-> <<>>]
  ELSE Prepared(years_json, FlatAll(years_json), SortedDesc(DKeySeq(years_json)))

\* lines 732-770: [exc, years_json, flat_all, yr, years_sorted, positions_map,
\* latest_section_order]
Prepare(years_json) ==
  IF years_json = <<>>
  THEN [exc |-> TRUE, years_json |-> years_json, flat_all |-> <<>>, yr |-> NoneV,
        years_sorted |-> <<>>, positions_map |-> <<>>, latest_section_order |-> <<>>]
  ELSE IF \E i \in DOMAIN years_json : ~years_json[i].v.isdict
  THEN [exc |-> TRUE, years_json |-> FlattenedBeforeRaise(years_json), flat_all |-> <<>>,
        yr |-> NoneV, years_sorted |-> <<>>, positions_map |-> <<>>,
        latest_section_order |-> <<>>]
  ELSE Prepared(years_json, FlatAll(years_json), SortedDesc(DKeySeq(years_json)))

\* flat_all with the rows of its i-th filing replaced
WithRows(flat_all, i, rows) == [flat_all EXCEPT ![i] = [k |-> flat_all[i].k, v |-> rows]]

\* "for _, rows in flat_all.items()" from its i-th turn on: every filing of flat_all,
\* in insertion order.  [exc, unified, flat_all, log]
RECURSIVE MergeFrom(_, _, _, _, _)
MergeFrom(i, unified, flat_all, log, yr) ==
  IF i > Len(flat_all)
  THEN [exc |-> FALSE, unified |-> unified, flat_all |-> flat_all, log |-> log]
  ELSE LET Bind(r) ==
             IF r.exc
             THEN [exc |-> TRUE, unified |-> r.unified,
                   flat_all |-> WithRows(flat_all, i, r.rows), log |-> log \o r.log]
             ELSE MergeFrom(i + 1, r.unified, WithRows(flat_all, i, r.rows),
                            log \o r.log, yr)
       IN Bind(MergePeriod(unified, flat_all[i].v, flat_all[i].k, yr))

\* lines 773-902
MergeAll(flat_all0, yr) == MergeFrom(1, <<>>, flat_all0, <<>>, yr)

\* lines 923-1006: the ordered catalog, padded
OrderAndPad(unified, flat_all, positions_map, latest_section_order, years_sorted) ==
  _pad_missing_years_in_mapping(
    OrderCatalog(unified, positions_map, latest_section_order, years_sorted),
    _collect_all_target_years(flat_all))

\* lines 905-1011 once the merge loop left flat_all and unified
FinishCatalog(p, flat_all, unified) ==
  [exc |-> FALSE,
   ordered |->
     OrderAndPad(
       CanonicalizeSections(
         zero_out_overlapping_years_for_new_items(unified, flat_all, p.years_sorted),
         DGet(flat_all, p.years_sorted[1])),
       flat_all, p.positions_map, p.latest_section_order, p.years_sorted)]

MergedCatalog(p, m) ==
  IF m.exc THEN [exc |-> TRUE, ordered |-> <<>>]
  ELSE FinishCatalog(p, m.flat_all, m.unified)

PreparedCatalog(p) ==
  IF p.exc THEN [exc |-> TRUE, ordered |-> <<>>]
  ELSE MergedCatalog(p, MergeAll(p.flat_all, p.yr))

\* [exc, ordered]: exc tells that an exception leaves build_unified_catalog
build_unified_catalog(years_json) == PreparedCatalog(Prepare(years_json))

(***************************************************************************)
(* build_unified_catalog_all_statements                                    *)
(*   its argument: [ismapping, years_kind, years]; years_kind tells what   *)
(*   is under "years": absent, none, empty (an empty dict), list (a value  *)
(*   without .items()) or dict, and years is then period key -> year data. *)
(*   Year data: [isdict, stmts] with stmts statement type -> statement     *)
(*   document; a statement document is a filing with a source_url field.   *)
(*   results: a dict whose keys are <<stmt_type>> and <<stmt_type, "_url">>*)
(***************************************************************************)
statement_types == <<"income_statement", "balance_sheet", "cash_flow_statement">>

\* stmt_type + "_url"
UrlKey(stmt_type) == <<stmt_type, "_url">>

\* lines 1049-1053 and 1100-1104
ThreeEmpty == [i \in DOMAIN statement_types |-> [k |-> <<statement_types[i]>>, v |-> <<>>]]

\* an outer handler that lets the exception through
OuterHandlerReraising(results) == [raised |-> TRUE, results |-> results]

\* "except Exception" of lines 1098-1104
OuterHandler(results) == [raised |-> FALSE, results |-> ThreeEmpty]

\* an inner handler that lets the exception through
InnerHandlerPropagating(results, stmt_type) == [raised |-> TRUE, results |-> results]

\* "except Exception" of lines 1093-1095
InnerHandler(results, stmt_type) ==
  [raised |-> FALSE, results |-> DPut(results, <<stmt_type>>, <<>>)]

\* lines 1076-1079
WithSourceUrl(source_urls, doc) ==
  IF doc.isdict /\ "source_url" \in doc.keys /\ Truthy(doc.source_url)
     /\ doc.source_url \notin Range(source_urls)
  THEN Append(source_urls, doc.source_url)
  ELSE source_urls

\* a collection of the documents of a statement type that keeps those with an
\* "error" field
RECURSIVE StmtYearsKeepingErrors(_, _, _, _, _)
StmtYearsKeepingErrors(i, stmt_years, source_urls, years_data, stmt_type) ==
  IF i > Len(years_data)
  THEN [exc |-> FALSE, stmt_years |-> stmt_years, source_urls |-> source_urls]
  ELSE IF ~years_data[i].v.isdict
  THEN [exc |-> TRUE, stmt_years |-> stmt_years, source_urls |-> source_urls]
  ELSE IF ~DHas(years_data[i].v.stmts, stmt_type)
  THEN StmtYearsKeepingErrors(i + 1, stmt_years, source_urls, years_data, stmt_type)
  ELSE StmtYearsKeepingErrors(
         i + 1,
         Append(stmt_years, [k |-> years_data[i].k,
                             v |-> DGet(years_data[i].v.stmts, stmt_type)]),
         WithSourceUrl(source_urls, DGet(years_data[i].v.stmts, stmt_type)),
         years_data, stmt_type)

\* "for year_key, year_data in years_data.items()" from its i-th turn on; a year data
\* that is None raises at "stmt_type in year_data".  [exc, stmt_years, source_urls]
RECURSIVE StmtYears(_, _, _, _, _)
StmtYears(i, stmt_years, source_urls, years_data, stmt_type) ==
  IF i > Len(years_data)
  THEN [exc |-> FALSE, stmt_years |-> stmt_years, source_urls |-> source_urls]
  ELSE IF ~years_data[i].v.isdict
  THEN [exc |-> TRUE, stmt_years |-> stmt_years, source_urls |-> source_urls]
  ELSE IF ~DHas(years_data[i].v.stmts, stmt_type)
  THEN StmtYears(i + 1, stmt_years, source_urls, years_data, stmt_type)
  ELSE LET Bind(doc) ==
             IF doc.isdict /\ "error" \in doc.keys
             THEN StmtYears(i + 1, stmt_years, source_urls, years_data, stmt_type)
             ELSE StmtYears(i + 1, Append(stmt_years, [k |-> years_data[i].k, v |-> doc]),
                            WithSourceUrl(source_urls, doc), years_data, stmt_type)
       IN Bind(DGet(years_data[i].v.stmts, stmt_type))

\* what the try body of one statement type leaves: docs are the statement documents
\* as build_unified_catalog left them
BodyResult(c, docs, source_urls) ==
  [exc |-> c.exc, catalog |-> c.ordered, urls |-> source_urls, docs |-> docs]

\* lines 1083-1088
BuiltStatement(p, source_urls) == BodyResult(PreparedCatalog(p), p.years_json, source_urls)

\* lines 1082-1092
CollectedStatement(sy) ==
  IF sy.exc THEN [exc |-> TRUE, catalog |-> <<>>, urls |-> <<>>, docs |-> <<>>]
  ELSE IF sy.stmt_years = <<>>
  THEN [exc |-> FALSE, catalog |-> <<>>, urls |-> <<>>, docs |-> <<>>]
  ELSE BuiltStatement(Prepare(sy.stmt_years), sy.source_urls)

\* lines 1064-1092, the try body of one statement type; years_data.items() raises
\* when years_data is no dict
StatementBody(input, stmt_type) ==
  IF input.years_kind # "dict"
  THEN [exc |-> TRUE, catalog |-> <<>>, urls |-> <<>>, docs |-> <<>>]
  ELSE CollectedStatement(StmtYears(1, <<>>, <<>>, input.years, stmt_type))

\* a handler's outcome as the outcome of the turn
Handled(h, docs) == [raised |-> h.raised, results |-> h.results, caught |-> TRUE, docs |-> docs]

\* lines 1062-1095: one turn of "for stmt_type in statement_types".
\* [raised, results, caught, docs]
AfterBody(b, results, stmt_type) ==
  IF b.exc THEN Handled(InnerHandler(results, stmt_type), b.docs)
  ELSE [raised |-> FALSE,
        results |-> DPut(DPut(results, <<stmt_type>>, b.catalog), UrlKey(stmt_type), b.urls),
        caught |-> FALSE, docs |-> b.docs]

StatementTurn(results, input, stmt_type) ==
  AfterBody(StatementBody(input, stmt_type), results, stmt_type)

\* "for stmt_type in statement_types" from its i-th turn on.  The documents of one
\* statement type are read by its own turn only, so what a turn writes into them
\* is not carried along here
RECURSIVE StatementsFrom(_, _, _)
StatementsFrom(i, results, input) ==
  IF i > Len(statement_types) THEN [raised |-> FALSE, results |-> results]
  ELSE LET Bind(t) ==
             IF t.raised THEN OuterHandler(t.results)
             ELSE StatementsFrom(i + 1, t.results, input)
       IN Bind(StatementTurn(results, input, statement_types[i]))

\* "not years_data"
NoYears(input) == input.years_kind \in {"absent", "none", "empty"}

\* [raised, results]: raised tells that an exception leaves the function
build_unified_catalog_all_statements(input) ==
  IF ~input.ismapping THEN OuterHandler(<<>>)
  ELSE IF NoYears(input) THEN [raised |-> FALSE, results |-> ThreeEmpty]
  ELSE StatementsFrom(1, <<>>, input)

(***************************************************************************)
(* Inputs                                                                  *)
(***************************************************************************)
Y2024 == <<"2", "0", "2", "4">>

Y2023 == <<"2", "0", "2", "3">>

Y2022 == <<"2", "0", "2", "2">>

Y2021 == <<"2", "0", "2", "1">>

Y2020 == <<"2", "0", "2", "0">>

Y2019 == <<"2", "0", "1", "9">>

\* a second period key of the year 2024
Y2024Dec == <<"2", "0", "2", "4", "-", "1", "2">>

\* the period keys, newest first
PeriodKeys == <<Y2024, Y2023, Y2022, Y2021, Y2020>>

PrevYear(y) ==
  IF y = Y2024 \/ y = Y2024Dec THEN Y2023
  ELSE IF y = Y2023 THEN Y2022
  ELSE IF y = Y2022 THEN Y2021
  ELSE IF y = Y2021 THEN Y2020
  ELSE Y2019

OwnYear(y) == IF y = Y2024Dec THEN Y2024 ELSE y

TagNetIncomeLoss == <<"NetIncomeLoss">>

TagProfitLoss == <<"ProfitLoss">>

TagRevenues == <<"Revenues">>

LabelA == <<"a">>

\* normalizes to "a"
LabelAVariant == <<"A", ":">>

LabelB == <<"b">>

LabelC == <<"c">>

LabelD == <<"d">>

SecTagAssets == <<"Assets">>

SecTagAssetsAbstract == <<"AssetsAbstract">>

SecX == <<"x">>

\* normalizes to "x"
SecXVariant == <<"X", ":">>

SecY == <<"y">>

Entry(key, val) == [k |-> key, v |-> val]

Item(gaap, label, values) ==
  [gaap |-> gaap, label |-> label, has_values |-> TRUE, values |-> values]

Section(gaap, label, items) == [gaap |-> gaap, section |-> label, items |-> items]

Doc(sections) ==
  [isdict |-> TRUE, keys |-> {"sections"}, periods |-> <<>>, sections |-> sections]

\* the values of an item of period y: its own year and the year before
TwoYears(y, own, prev) == <<Entry(OwnYear(y), own), Entry(PrevYear(y), prev)>>

\* all sequences without repetition over the set S, of length 1 .. n
RECURSIVE Arrangements(_, _)
Arrangements(S, n) ==
  IF n = 0 THEN {<<>>}
  ELSE LET shorter == Arrangements(S, n - 1)
       IN shorter \cup {Append(q, x) : q \in shorter, x \in S}

DistinctSeqs(S, n) ==
  {q \in Arrangements(S, n) : q # <<>> /\ \A i, j \in DOMAIN q : i # j => q[i] # q[j]}

\* all sequences over S of length 1 .. n
NonEmptySeqs(S, n) == Arrangements(S, n) \ {<<>>}

\* how many periods an input of the chain family has at most
MaxPeriods == 3

\* how many items a section of the pair family has at most
MaxSiblings == 2

(* Chain family: one section, one item per period, periods in every order; the *)
(* item of a period reports its own year and, as prev, the year before         *)
ChainKeys == {PeriodKeys[i] : i \in 1..MaxPeriods}

ChainIdents == {<<TagNetIncomeLoss, LabelA>>, <<TagProfitLoss, LabelAVariant>>,
                <<TagRevenues, LabelB>>}

ChainPrev == {VInt(5), VInt(7)}

ChainDoc(y, ident, prev) ==
  Doc(<<Section(NoneV, SecX, <<Item(ident[1], ident[2], TwoYears(y, VInt(5), prev))>>)>>)

ChainInputs ==
  UNION {
    {[i \in DOMAIN ks |-> Entry(ks[i], ChainDoc(ks[i], ids[i], pv))] :
       ids \in [DOMAIN ks -> ChainIdents], pv \in ChainPrev} :
    ks \in DistinctSeqs(ChainKeys, MaxPeriods)}

(* Pair family: the periods 2024 and 2023, in either order, one section each *)
NewerPool ==
  {Item(TagRevenues, LabelB, <<Entry(Y2024, VInt(5)), Entry(Y2023, VInt(5))>>),
   Item(TagNetIncomeLoss, LabelA, <<Entry(Y2024, VInt(5)), Entry(Y2023, VInt(5))>>),
   Item(NoneV, LabelC, <<Entry(Y2024, VNone), Entry(Y2023, VInt(7))>>)}

OlderPool ==
  {Item(TagProfitLoss, LabelAVariant, <<Entry(Y2023, VInt(5)), Entry(Y2022, VInt(5))>>),
   Item(TagRevenues, LabelB, <<Entry(Y2023, VInt(5)), Entry(Y2022, VNone)>>),
   Item(NoneV, LabelD, <<Entry(Y2023, VCell(VStr(<<"8">>), "meta")),
                         Entry(Y2022, VInt(3))>>)}

\* the (tag, label) of the section of the older period; the newer one is
\* (SecTagAssets, SecX)
OlderSections ==
  {<<SecTagAssets, SecX>>, <<SecTagAssetsAbstract, SecX>>,
   <<SecTagAssetsAbstract, SecXVariant>>, <<NoneV, SecXVariant>>,
   <<SecTagAssetsAbstract, SecY>>}

PairInputs ==
  {IF newest_first
   THEN <<Entry(Y2024, Doc(<<Section(SecTagAssets, SecX, ni)>>)),
          Entry(Y2023, Doc(<<Section(os[1], os[2], oi)>>))>>
   ELSE <<Entry(Y2023, Doc(<<Section(os[1], os[2], oi)>>)),
          Entry(Y2024, Doc(<<Section(SecTagAssets, SecX, ni)>>))>> :
     newest_first \in BOOLEAN, os \in OlderSections,
     ni \in DistinctSeqs(NewerPool, MaxSiblings), oi \in DistinctSeqs(OlderPool, MaxSiblings)}

(* Repeat family: one period document, supplied once or under two keys of 2024 *)
RepeatPool ==
  {Item(NoneV, LabelA, <<Entry(Y2024, VInt(5))>>),
   Item(NoneV, LabelB, <<Entry(Y2024, VInt(5))>>),
   Item(NoneV, LabelA, <<Entry(Y2024, VInt(5)), Entry(Y2023, VInt(9))>>)}

RepeatDocs ==
  {Doc(<<Section(NoneV, SecX, items)>>) :
     items \in DistinctSeqs(RepeatPool, Cardinality(RepeatPool))}

Once(doc) == <<Entry(Y2024, doc)>>

Twice(doc) == <<Entry(Y2024, doc), Entry(Y2024Dec, doc)>>

RepeatInputs == {Once(doc) : doc \in RepeatDocs} \cup {Twice(doc) : doc \in RepeatDocs}

(* Malformed family: the periods 2024 and 2023, one or both, in either order; a *)
(* period document is sound, has no "sections" key, or has items without a     *)
(* "values" key                                                                 *)
ItemWithoutValues(gaap, label) ==
  [gaap |-> gaap, label |-> label, has_values |-> FALSE, values |-> <<>>]

DocWithoutSections == [isdict |-> TRUE, keys |-> {}, periods |-> <<>>, sections |-> <<>>]

MalformedDocs(y) ==
  {Doc(<<Section(SecTagAssets, SecX,
                 <<Item(TagNetIncomeLoss, LabelA, TwoYears(y, VInt(5), VInt(5))),
                   Item(TagRevenues, LabelB, TwoYears(y, VInt(7), VInt(7)))>>)>>),
   DocWithoutSections,
   Doc(<<Section(SecTagAssets, SecX,
                 <<ItemWithoutValues(TagNetIncomeLoss, LabelA),
                   Item(TagRevenues, LabelB, TwoYears(y, VInt(7), VInt(7)))>>)>>),
   Doc(<<Section(SecTagAssets, SecX, <<ItemWithoutValues(NoneV, LabelC)>>)>>)}

MalformedInputs ==
  UNION {{[i \in DOMAIN ks |-> Entry(ks[i], docs[i])] :
            docs \in {d \in [DOMAIN ks -> UNION {MalformedDocs(y) : y \in {Y2024, Y2023}}] :
                        \A i \in DOMAIN ks : d[i] \in MalformedDocs(ks[i])}} :
         ks \in DistinctSeqs({Y2024, Y2023}, 2)}

\* how many sections a period document, and the catalog of the section map, has
\* at most
MaxSections == 2

(* Layout family: the periods 2024 and 2023, in either order, of 1 .. MaxSections *)
(* sections of one item each                                                    *)
NewerLayout == {<<SecTagAssets, SecX>>, <<NoneV, SecY>>}

OlderLayout == {<<SecTagAssetsAbstract, SecX>>, <<NoneV, SecY>>, <<NoneV, <<"z">>>>}

LayoutDoc(q, y) ==
  Doc([i \in DOMAIN q |->
         Section(q[i][1], q[i][2],
                 <<Item(TagNetIncomeLoss, LabelA, TwoYears(y, VInt(5), VInt(5)))>>)])

LayoutInputs ==
  {IF newest_first
   THEN <<Entry(Y2024, LayoutDoc(nq, Y2024)), Entry(Y2023, LayoutDoc(oq, Y2023))>>
   ELSE <<Entry(Y2023, LayoutDoc(oq, Y2023)), Entry(Y2024, LayoutDoc(nq, Y2024))>> :
     newest_first \in BOOLEAN,
     nq \in DistinctSeqs(NewerLayout, MaxSections), oq \in DistinctSeqs(OlderLayout, MaxSections)}

(* Ascending family: the periods 2024 and 2023, in either order, one item of one *)
(* tag each, whose values list the oldest year first; 2024 reports three years   *)
AscendingValues == {VInt(5), VInt(7)}

AscendingDoc(values) ==
  Doc(<<Section(NoneV, SecX, <<Item(TagNetIncomeLoss, LabelA, values)>>)>>)

AscendingInputs ==
  {IF newest_first
   THEN <<Entry(Y2024, AscendingDoc(<<Entry(Y2022, a), Entry(Y2023, b), Entry(Y2024, VInt(5))>>)),
          Entry(Y2023, AscendingDoc(<<Entry(Y2022, c), Entry(Y2023, d)>>))>>
   ELSE <<Entry(Y2023, AscendingDoc(<<Entry(Y2022, c), Entry(Y2023, d)>>)),
          Entry(Y2024, AscendingDoc(<<Entry(Y2022, a), Entry(Y2023, b), Entry(Y2024, VInt(5))>>))>> :
     newest_first \in BOOLEAN, a \in AscendingValues, b \in AscendingValues,
     c \in AscendingValues, d \in AscendingValues}

(* Collision family: the periods 2024 and 2023, in either order, one section each; *)
(* items of a section may carry the same tag under different labels              *)
NewerColliding ==
  {Item(TagNetIncomeLoss, LabelA, <<Entry(Y2024, VInt(5)), Entry(Y2023, VInt(5))>>),
   Item(TagNetIncomeLoss, LabelB, <<Entry(Y2024, VInt(7)), Entry(Y2023, VInt(7))>>),
   Item(TagRevenues, LabelD, <<Entry(Y2024, VInt(3)), Entry(Y2023, VInt(3))>>)}

OlderColliding ==
  {Item(TagNetIncomeLoss, LabelC, <<Entry(Y2023, VInt(9)), Entry(Y2022, VInt(9))>>),
   Item(TagNetIncomeLoss, LabelA, <<Entry(Y2023, VInt(5)), Entry(Y2022, VInt(5))>>),
   Item(TagProfitLoss, LabelB, <<Entry(Y2023, VInt(7)), Entry(Y2022, VInt(7))>>)}

CollisionInputs ==
  {IF newest_first
   THEN <<Entry(Y2024, Doc(<<Section(SecTagAssets, SecX, ni)>>)),
          Entry(Y2023, Doc(<<Section(SecTagAssets, SecX, oi)>>))>>
   ELSE <<Entry(Y2023, Doc(<<Section(SecTagAssets, SecX, oi)>>)),
          Entry(Y2024, Doc(<<Section(SecTagAssets, SecX, ni)>>))>> :
     newest_first \in BOOLEAN,
     ni \in DistinctSeqs(NewerColliding, MaxSiblings),
     oi \in DistinctSeqs(OlderColliding, MaxSiblings)}

(* Shared family: the period 2024 has the section (Assets, x); the period 2023 has *)
(* one or two sections that pass the same-section gate against it, by the label *)
(* or by the tag; the periods come in either order                              *)
SharedLayout ==
  {Section(NoneV, SecX, <<Item(TagNetIncomeLoss, LabelA, TwoYears(Y2023, VInt(5), VInt(5)))>>),
   Section(SecTagAssets, <<"z">>,
           <<Item(TagRevenues, LabelB, TwoYears(Y2023, VInt(7), VInt(7)))>>),
   Section(SecTagAssets, SecY,
           <<Item(TagNetIncomeLoss, LabelC, TwoYears(Y2023, VInt(9), VInt(9)))>>)}

SharedInputs ==
  {IF newest_first
   THEN <<Entry(Y2024, LayoutDoc(<<<<SecTagAssets, SecX>>>>, Y2024)), Entry(Y2023, Doc(oq))>>
   ELSE <<Entry(Y2023, Doc(oq)), Entry(Y2024, LayoutDoc(<<<<SecTagAssets, SecX>>>>, Y2024))>> :
     newest_first \in BOOLEAN, oq \in DistinctSeqs(SharedLayout, 2)}

(* Relabel family: the period 2023 has the section (AssetsAbstract, x); the period *)
(* 2024 has one or two sections, one with the label and one with the tag of it;   *)
(* the periods come in either order                                               *)
RelabelLayout == {<<SecTagAssets, SecX>>, <<SecTagAssetsAbstract, SecY>>}

RelabelInputs ==
  {IF newest_first
   THEN <<Entry(Y2024, LayoutDoc(nq, Y2024)),
          Entry(Y2023, LayoutDoc(<<<<SecTagAssetsAbstract, SecX>>>>, Y2023))>>
   ELSE <<Entry(Y2023, LayoutDoc(<<<<SecTagAssetsAbstract, SecX>>>>, Y2023)),
          Entry(Y2024, LayoutDoc(nq, Y2024))>> :
     newest_first \in BOOLEAN, nq \in DistinctSeqs(RelabelLayout, 2)}

(* Periods family: one period whose document has a "periods" list, of year keys *)
(* that are normalized already or not                                           *)
PeriodsDoc(periods) ==
  [isdict |-> TRUE, keys |-> {"sections", "periods"}, periods |-> periods,
   sections |-> <<Section(SecTagAssets, SecX,
                          <<Item(TagNetIncomeLoss, LabelA, TwoYears(Y2024, VInt(5), VInt(5))),
                            Item(TagRevenues, LabelB, TwoYears(Y2024, VInt(7), VInt(7)))>>),
                  Section(NoneV, SecY,
                          <<Item(NoneV, LabelC, TwoYears(Y2024, VInt(3), VInt(3)))>>)>>]

PeriodsInputs ==
  {<<Entry(Y2024, PeriodsDoc(periods))>> : periods \in {<<Y2024, Y2023>>, <<Y2024Dec, Y2023>>}}

\* how many sections a period document of the tagged family has at most
MaxTagged == 3

(* Tagged family: one period of 1 .. MaxTagged sections of one item each; sections *)
(* may carry the same tag under the same, a differently written or another label *)
TaggedLayout ==
  {<<SecTagAssets, SecX>>, <<SecTagAssets, SecXVariant>>, <<SecTagAssets, SecY>>,
   <<SecTagAssetsAbstract, SecY>>}

TaggedInputs == {<<Entry(Y2024, LayoutDoc(q, Y2024))>> : q \in DistinctSeqs(TaggedLayout, MaxTagged)}

Inputs ==
  ChainInputs \cup PairInputs \cup RepeatInputs \cup MalformedInputs \cup LayoutInputs
    \cup AscendingInputs \cup CollisionInputs \cup SharedInputs \cup TaggedInputs
    \cup RelabelInputs \cup PeriodsInputs

(***************************************************************************)
(* The run of build_unified_catalog                                        *)
(***************************************************************************)
VARIABLES
  years_json,            \* the argument; flatten_with_positions writes into its filings
  pc,                    \* where the call is: prep, merge, zero_out, labels, order,
                         \* done, raised
  flat_all,              \* period key -> flattened rows
  yr,                    \* the loop variable yr as line 759 leaves it
  years_sorted,
  positions_map,
  latest_section_order,
  unified,               \* the catalog under construction
  merged,                \* how many filings of flat_all are merged
  merge_log,             \* history: per merged row, the entry it was written to
  ordered                \* the returned OrderedDict

\* the variables of a run of build_unified_catalog
buildVars == <<years_json, pc, flat_all, yr, years_sorted, positions_map,
               latest_section_order, unified, merged, merge_log, ordered>>

\* a call of match_line_items
VARIABLES
  m_pc,                  \* idle, call, returned
  m_item1,
  m_item2,
  m_overlap_years,
  m_ignore_gaap,
  m_result               \* what the call returned

matchVars == <<m_pc, m_item1, m_item2, m_overlap_years, m_ignore_gaap, m_result>>

\* the section map of one incoming period
VARIABLES
  s_pc,                  \* idle, greedy, fallback, mapped
  s_unified,             \* the catalog
  s_rows,                \* flat_rows_for_this_filing
  s_greedy_map,          \* what _build_greedy_section_map returned
  s_updated_map          \* what _apply_fallback_section_matching returned

secVars == <<s_pc, s_unified, s_rows, s_greedy_map, s_updated_map>>

\* a call of build_unified_catalog_all_statements
VARIABLES
  a_pc,                  \* idle, start, statements, returned, raised
  a_years_json,          \* the argument
  a_done,                \* how many statement types are processed
  a_results,             \* results
  a_caught               \* history: the handlers that ran

aggVars == <<a_pc, a_years_json, a_done, a_results, a_caught>>

\* a call of AggregatedFinancialScraper.run
VARIABLES
  w_pc,                  \* idle, start, pool, returned
  w_max_workers,         \* self.max_workers
  w_filings,             \* what get_10k_filings returned
  w_task,                \* per filing, its future: new, queued, running, done, raised,
                         \* collected, dropped
  w_all_results,         \* all_results
  w_order,               \* history: the filings in the order their results were collected
  w_data                 \* the three per-statement lists of the scraper; NoneV when run
                         \* returned None

scrapeVars == <<w_pc, w_max_workers, w_filings, w_task, w_all_results, w_order, w_data>>

vars == <<buildVars, matchVars, secVars, aggVars, scrapeVars>>

\* no call of match_line_items is under way
MatchIdle ==
  /\ m_pc = "idle"
  /\ m_item1 = NoneV
  /\ m_item2 = NoneV
  /\ m_overlap_years = {}
  /\ m_ignore_gaap = FALSE
  /\ m_result = FALSE

SecIdle ==
  /\ s_pc = "idle"
  /\ s_unified = <<>>
  /\ s_rows = <<>>
  /\ s_greedy_map = <<>>
  /\ s_updated_map = <<>>

AggIdle ==
  /\ a_pc = "idle"
  /\ a_years_json = NoneV
  /\ a_done = 0
  /\ a_results = <<>>
  /\ a_caught = {}

\* the lists of a scraper as __init__ leaves them (orchestrator.py, lines 263-265)
EmptyData == [balance_sheet |-> <<>>, income_statement |-> <<>>, cash_flow |-> <<>>]

ScrapeIdle ==
  /\ w_pc = "idle"
  /\ w_max_workers = 0
  /\ w_filings = <<>>
  /\ w_task = <<>>
  /\ w_all_results = <<>>
  /\ w_order = <<>>
  /\ w_data = EmptyData

BuildIdle ==
  /\ years_json = <<>>
  /\ pc = "idle"
  /\ flat_all = <<>>
  /\ yr = NoneV
  /\ years_sorted = <<>>
  /\ positions_map = <<>>
  /\ latest_section_order = <<>>
  /\ unified = <<>>
  /\ merged = 0
  /\ merge_log = <<>>
  /\ ordered = <<>>

Init ==
  /\ years_json \in Inputs
  /\ pc = "prep"
  /\ flat_all = <<>>
  /\ yr = NoneV
  /\ years_sorted = <<>>
  /\ positions_map = <<>>
  /\ latest_section_order = <<>>
  /\ unified = <<>>
  /\ merged = 0
  /\ merge_log = <<>>
  /\ ordered = <<>>
  /\ MatchIdle /\ SecIdle /\ AggIdle /\ ScrapeIdle

\* the variables after lines 732-770 left p
Flattened(p) ==
  /\ pc' = IF p.exc THEN "raised" ELSE "merge"
  /\ years_json' = p.years_json
  /\ flat_all' = p.flat_all
  /\ yr' = p.yr
  /\ years_sorted' = p.years_sorted
  /\ positions_map' = p.positions_map
  /\ latest_section_order' = p.latest_section_order

\* lines 732-770
Flatten ==
  /\ pc = "prep"
  /\ Flattened(Prepare(years_json))
  /\ UNCHANGED <<unified, merged, merge_log, ordered>>
  /\ UNCHANGED <<matchVars, secVars, aggVars, scrapeVars>>

\* the variables after the i-th turn of the merge loop left r
MergedPeriod(i, r) ==
  /\ unified' = r.unified
  /\ flat_all' = WithRows(flat_all, i, r.rows)
  /\ merge_log' = merge_log \o r.log
  /\ merged' = i
  /\ pc' = IF r.exc THEN "raised"
           ELSE IF i = Len(flat_all) THEN "zero_out" ELSE "merge"

\* one turn of "for _, rows in flat_all.items()", lines 775-902
Merge ==
  /\ pc = "merge"
  /\ merged < Len(flat_all)
  /\ MergedPeriod(merged + 1,
                  MergePeriod(unified, flat_all[merged + 1].v, flat_all[merged + 1].k, yr))
  /\ UNCHANGED <<years_json, yr, years_sorted, positions_map, latest_section_order, ordered>>
  /\ UNCHANGED <<matchVars, secVars, aggVars, scrapeVars>>

\* line 905
ZeroOut ==
  /\ pc = "zero_out"
  /\ unified' = zero_out_overlapping_years_for_new_items(unified, flat_all, years_sorted)
  /\ pc' = "labels"
  /\ UNCHANGED <<years_json, flat_all, yr, years_sorted, positions_map,
                 latest_section_order, merged, merge_log, ordered>>
  /\ UNCHANGED <<matchVars, secVars, aggVars, scrapeVars>>

\* lines 907-921
Labels ==
  /\ pc = "labels"
  /\ unified' = CanonicalizeSections(unified, DGet(flat_all, years_sorted[1]))
  /\ pc' = "order"
  /\ UNCHANGED <<years_json, flat_all, yr, years_sorted, positions_map,
                 latest_section_order, merged, merge_log, ordered>>
  /\ UNCHANGED <<matchVars, secVars, aggVars, scrapeVars>>

\* lines 923-1011; the payloads of ordered are those of unified, so padding shows in both
Order ==
  /\ pc = "order"
  /\ ordered' = OrderAndPad(unified, flat_all, positions_map, latest_section_order,
                            years_sorted)
  /\ unified' = IF unified = <<>> THEN unified
                ELSE _pad_missing_years_in_mapping(unified, _collect_all_target_years(flat_all))
  /\ pc' = "done"
  /\ UNCHANGED <<years_json, flat_all, yr, years_sorted, positions_map,
                 latest_section_order, merged, merge_log>>
  /\ UNCHANGED <<matchVars, secVars, aggVars, scrapeVars>>

Next == Flatten \/ Merge \/ ZeroOut \/ Labels \/ Order

Spec == Init /\ [][Next]_vars

(***************************************************************************)
(* A call of match_line_items                                              *)
(***************************************************************************)
MatchTags == {NoneV, TagNetIncomeLoss, TagProfitLoss}

\* the last two are the empty label and the label None
MatchLabels == {LabelA, LabelAVariant, LabelB, <<>>, NoneV}

\* what an item may hold for the period 2023
MatchValues ==
  {VNone, VInt(0), VFloat(0), VInt(5),
   VStr(<<>>), VStr(<<"0">>), VStr(<<"0", ".", "0">>), VStr(<<" ">>),
   VStr(<<"5">>), VStr(<<"(", "5", ")">>),
   VCell(VInt(0), "meta")}

\* an item as match_line_items reads it: a flattened row or a catalog payload
MatchItems ==
  {[item_gaap |-> g, item_label |-> l, values |-> vs] :
     g \in MatchTags, l \in MatchLabels,
     vs \in {<<>>} \cup {<<Entry(Y2023, v)>> : v \in MatchValues}}

\* the callers pass the period keys both items have (lines 363 and 840)
InitMatch ==
  /\ m_pc = "call"
  /\ m_item1 \in MatchItems
  /\ m_item2 \in MatchItems
  /\ m_overlap_years = DKeys(m_item1.values) \cap DKeys(m_item2.values)
  /\ m_ignore_gaap \in BOOLEAN
  /\ m_result = FALSE
  /\ BuildIdle /\ SecIdle /\ AggIdle /\ ScrapeIdle

\* lines 88-139
Match ==
  /\ m_pc = "call"
  /\ m_result' = match_line_items(m_item1, m_item2, m_overlap_years, m_ignore_gaap)
  /\ m_pc' = "returned"
  /\ UNCHANGED <<m_item1, m_item2, m_overlap_years, m_ignore_gaap>>
  /\ UNCHANGED <<buildVars, secVars, aggVars, scrapeVars>>

NextMatch == Match

SpecMatch == InitMatch /\ [][NextMatch]_vars

(***************************************************************************)
(* The section map of one incoming period                                  *)
(***************************************************************************)
\* (tag, label) of the sections of the catalog
CatalogSections == {<<SecTagAssets, SecX>>, <<SecTagAssetsAbstract, SecX>>, <<NoneV, <<"z">>>>}

\* (tag, label) of the sections of the incoming period: the first passes the gate
\* with (Assets, x) by tag, the second with both x sections by label, the third
\* with none
CandidateSections == {<<SecTagAssets, <<"q">>>>, <<NoneV, SecXVariant>>, <<NoneV, <<"w">>>>}

\* the items of a section of the catalog
CatalogItems(y) ==
  {<<Item(TagNetIncomeLoss, LabelA, <<Entry(y, VInt(5))>>)>>,
   <<Item(TagRevenues, LabelB, <<Entry(y, VInt(7))>>)>>}

\* the items of a section of the incoming period: all, half or none of them match
\* the items of a section of the catalog
CandidateItems(y) ==
  {<<Item(TagNetIncomeLoss, LabelA, <<Entry(y, VInt(5))>>)>>,
   <<Item(TagNetIncomeLoss, LabelA, <<Entry(y, VInt(5))>>),
     Item(TagRevenues, LabelB, <<Entry(y, VInt(7))>>)>>,
   <<Item(TagNetIncomeLoss, LabelA, <<Entry(y, VInt(5))>>),
     Item(NoneV, LabelC, <<Entry(y, VInt(9))>>)>>}

\* the documents of 1 .. MaxSections sections of different (tag, label)
SectionDocs(idents, pool) ==
  UNION {{Doc([i \in DOMAIN q |-> Section(q[i][1], q[i][2], items[i])]) :
            items \in [DOMAIN q -> pool]} :
         q \in DistinctSeqs(idents, MaxSections)}

\* the rows of a period document as lines 746-747 leave them
RowsOfDoc(doc) == _flag_duplicate_section_gaaps_label_only(flatten_with_positions(doc))

\* the catalog is what merging one period into the empty catalog leaves
InitSec ==
  /\ s_pc = "greedy"
  /\ s_unified \in {MergePeriod(<<>>, RowsOfDoc(doc), Y2023, Y2023).unified :
                      doc \in SectionDocs(CatalogSections, CatalogItems(Y2023))}
  /\ s_rows \in {RowsOfDoc(doc) : doc \in SectionDocs(CandidateSections, CandidateItems(Y2023))}
  /\ s_greedy_map = <<>>
  /\ s_updated_map = <<>>
  /\ BuildIdle /\ MatchIdle /\ AggIdle /\ ScrapeIdle

\* lines 289-315
Greedy ==
  /\ s_pc = "greedy"
  /\ s_greedy_map' = _build_greedy_section_map(s_unified, s_rows)
  /\ s_pc' = "fallback"
  /\ UNCHANGED <<s_unified, s_rows, s_updated_map>>
  /\ UNCHANGED <<buildVars, matchVars, aggVars, scrapeVars>>

\* lines 527-714
Fallback ==
  /\ s_pc = "fallback"
  /\ s_updated_map' = _apply_fallback_section_matching(s_unified, s_rows, s_greedy_map)
  /\ s_pc' = "mapped"
  /\ UNCHANGED <<s_unified, s_rows, s_greedy_map>>
  /\ UNCHANGED <<buildVars, matchVars, aggVars, scrapeVars>>

NextSec == Greedy \/ Fallback

SpecSec == InitSec /\ [][NextSec]_vars

(***************************************************************************)
(* A call of build_unified_catalog_all_statements                          *)
(***************************************************************************)
\* how many periods the argument has at most
MaxYears == 2

\* a filing with a source_url; NoneV for a filing without that key
StatementDoc(doc, url) ==
  [isdict |-> doc.isdict,
   keys |-> doc.keys \cup (IF url = NoneV THEN {} ELSE {"source_url"}),
   periods |-> doc.periods, sections |-> doc.sections, source_url |-> url]

\* the sound document of a statement type for period y
OkDoc(stmt_type, y) ==
  IF stmt_type = "income_statement"
  THEN Doc(<<Section(NoneV, SecX,
                     <<Item(TagNetIncomeLoss, LabelA, TwoYears(y, VInt(5), VInt(5)))>>)>>)
  ELSE IF stmt_type = "balance_sheet"
  THEN Doc(<<Section(SecTagAssets, SecX,
                     <<Item(NoneV, LabelB, TwoYears(y, VInt(7), VInt(7)))>>)>>)
  ELSE Doc(<<Section(NoneV, SecY,
                     <<Item(TagProfitLoss, LabelC, TwoYears(y, VInt(3), VInt(3)))>>)>>)

UrlOf(y) == IF y = Y2024 THEN <<"u", "1">> ELSE <<"u", "2">>

\* what a period may hold for a statement type, besides nothing: a document with an
\* "error" key, a value that is no dict, a document without sections, a sound one
StatementKinds == {"absent", "error", "bad", "empty", "ok"}

DocOfKind(kind, stmt_type, y) ==
  IF kind = "error"
  THEN StatementDoc([OkDoc(stmt_type, y) EXCEPT !.keys = @ \cup {"error"}], NoneV)
  ELSE IF kind = "bad"
  THEN StatementDoc([isdict |-> FALSE, keys |-> {}, periods |-> <<>>, sections |-> <<>>],
                    NoneV)
  ELSE IF kind = "empty" THEN StatementDoc(Doc(<<>>), NoneV)
  ELSE StatementDoc(OkDoc(stmt_type, y), UrlOf(y))

\* the year data of period y whose statement types are of the given kinds
YearData(kinds, y) ==
  [isdict |-> TRUE,
   stmts |-> [i \in DOMAIN SelectSeq(statement_types, LAMBDA t : kinds[t] # "absent") |->
                [k |-> SelectSeq(statement_types, LAMBDA t : kinds[t] # "absent")[i],
                 v |-> DocOfKind(kinds[SelectSeq(statement_types,
                                                 LAMBDA t : kinds[t] # "absent")[i]],
                                 SelectSeq(statement_types,
                                           LAMBDA t : kinds[t] # "absent")[i], y)]]]

\* a year data that is None
NoneYear == [isdict |-> FALSE, stmts |-> <<>>]

AllOk == [t \in Range(statement_types) |-> "ok"]

\* one year is None or of any kinds; the other years are sound, or of the same kinds
YearOptions(ks) ==
  UNION {{[i \in DOMAIN ks |-> Entry(ks[i], IF i = j THEN NoneYear
                                            ELSE YearData(AllOk, ks[i]))]}
         \cup {[i \in DOMAIN ks |->
                  Entry(ks[i], YearData(IF i = j \/ alike THEN kinds ELSE AllOk, ks[i]))] :
                 kinds \in [Range(statement_types) -> StatementKinds], alike \in BOOLEAN} :
         j \in DOMAIN ks}

\* the first n period keys, newest first and oldest first
AggKeySeqs ==
  UNION {{[i \in 1..n |-> PeriodKeys[i]], [i \in 1..n |-> PeriodKeys[n + 1 - i]]} :
         n \in 1..MaxYears}

AggInputs ==
  {[ismapping |-> FALSE, years_kind |-> "absent", years |-> <<>>]}
  \cup {[ismapping |-> TRUE, years_kind |-> k, years |-> <<>>] :
          k \in {"absent", "none", "empty", "list"}}
  \cup UNION {{[ismapping |-> TRUE, years_kind |-> "dict", years |-> years] :
                 years \in YearOptions(ks)} :
              ks \in AggKeySeqs}

InitAll ==
  /\ a_pc = "start"
  /\ a_years_json \in AggInputs
  /\ a_done = 0
  /\ a_results = <<>>
  /\ a_caught = {}
  /\ BuildIdle /\ MatchIdle /\ SecIdle /\ ScrapeIdle

\* the function is left with outcome h
Left(h, caught) ==
  /\ a_results' = h.results
  /\ a_pc' = IF h.raised THEN "raised" ELSE "returned"
  /\ a_caught' = caught

\* lines 1045-1060
Begin ==
  /\ a_pc = "start"
  /\ IF ~a_years_json.ismapping THEN Left(OuterHandler(<<>>), {"outer"})
     ELSE IF NoYears(a_years_json)
     THEN Left([raised |-> FALSE, results |-> ThreeEmpty], a_caught)
     ELSE a_pc' = "statements" /\ UNCHANGED <<a_results, a_caught>>
  /\ UNCHANGED <<a_years_json, a_done>>
  /\ UNCHANGED <<buildVars, matchVars, secVars, scrapeVars>>

\* the argument once the documents of a statement type are as docs has them
WithDocs(input, stmt_type, docs) ==
  [input EXCEPT !.years =
     [i \in DOMAIN @ |->
        IF DHas(docs, @[i].k)
        THEN [k |-> @[i].k,
              v |-> [@[i].v EXCEPT !.stmts = DPut(@, stmt_type, DGet(docs, input.years[i].k))]]
        ELSE @[i]]]

\* the variables after the turn of stmt_type left t
Turned(t, stmt_type) ==
  /\ a_years_json' = WithDocs(a_years_json, stmt_type, t.docs)
  /\ a_done' = a_done + 1
  /\ IF t.raised THEN Left(OuterHandler(t.results), a_caught \cup {stmt_type, "outer"})
     ELSE /\ a_results' = t.results
          /\ a_pc' = "statements"
          /\ a_caught' = IF t.caught THEN a_caught \cup {stmt_type} ELSE a_caught

\* lines 1062-1095, one turn of "for stmt_type in statement_types"
ProcessStatement ==
  /\ a_pc = "statements"
  /\ a_done < Len(statement_types)
  /\ Turned(StatementTurn(a_results, a_years_json, statement_types[a_done + 1]),
            statement_types[a_done + 1])
  /\ UNCHANGED <<buildVars, matchVars, secVars, scrapeVars>>

\* line 1097
Return ==
  /\ a_pc = "statements"
  /\ a_done = Len(statement_types)
  /\ a_pc' = "returned"
  /\ UNCHANGED <<a_years_json, a_done, a_results, a_caught>>
  /\ UNCHANGED <<buildVars, matchVars, secVars, scrapeVars>>

NextAll == Begin \/ ProcessStatement \/ Return

SpecAll == InitAll /\ [][NextAll]_vars

(***************************************************************************)
(* A call of AggregatedFinancialScraper.run (orchestrator.py)              *)
(*   A filing is [year, outcome, statements]: outcome tells how            *)
(*   scrape_single_filing ends for it ("ok": the result with the           *)
(*   statements that were extracted; "error": the result of the except     *)
(*   branch, without statements; "raise": an exception leaves the worker), *)
(*   statements is the set of statement types whose json is truthy.        *)
(***************************************************************************)
ScrapedStatements == {"balance_sheet", "income_statement", "cash_flow"}

Filing(year, outcome, statements) ==
  [year |-> year, outcome |-> outcome, statements |-> statements]

\* how many filings get_10k_filings returns at most
MaxFilings == 3

\* the largest max_workers
MaxWorkers == 2

FilingPool ==
  {Filing(2024, "ok", ScrapedStatements),
   Filing(2023, "ok", {"balance_sheet"}),
   Filing(2022, "ok", ScrapedStatements),
   Filing(2023, "raise", {}),
   Filing(2024, "error", {})}

\* lines 276-309: what scrape_single_filing returns for the id-th filing
ScrapeResult(id, filing) ==
  [id |-> id, year |-> filing.year, error |-> filing.outcome = "error",
   statements |-> IF filing.outcome = "ok" THEN filing.statements ELSE {}]

\* a sort that leaves the list as it is
Unsorted(all_results) == all_results

\* line 320: all_results.sort(key=lambda x: x['year'], reverse=True); the sort is
\* stable
RECURSIVE SortByYearDesc(_)
SortByYearDesc(all_results) ==
  IF all_results = <<>> THEN <<>>
  ELSE LET rest == SortByYearDesc(SubSeq(all_results, 1, Len(all_results) - 1))
           x == all_results[Len(all_results)]
       IN SelectSeq(rest, LAMBDA r : r.year >= x.year) \o <<x>>
            \o SelectSeq(rest, LAMBDA r : r.year < x.year)

\* lines 322-339: the list of one statement type after the results are walked
AppendStatements(data, results, kind) ==
  data \o [i \in 1..Len(SelectSeq(results, LAMBDA r : kind \in r.statements)) |->
             [filing_year |-> SelectSeq(results, LAMBDA r : kind \in r.statements)[i].year,
              id |-> SelectSeq(results, LAMBDA r : kind \in r.statements)[i].id]]

\* lines 313-339: [all_results, data]
aggregate_statements(data, all_results) ==
  [all_results |-> SortByYearDesc(all_results),
   data |-> [kind \in ScrapedStatements |->
               AppendStatements(data[kind], SortByYearDesc(all_results), kind)]]

InitScrape ==
  /\ w_pc = "start"
  /\ w_max_workers \in 1..MaxWorkers
  /\ w_filings \in {<<>>} \cup DistinctSeqs(FilingPool, MaxFilings)
  /\ w_task = <<>>
  /\ w_all_results = <<>>
  /\ w_order = <<>>
  /\ w_data = EmptyData
  /\ BuildIdle /\ MatchIdle /\ SecIdle /\ AggIdle

\* the futures that are running
Running == {i \in DOMAIN w_task : w_task[i] = "running"}

\* lines 355-360: without filings run returns None; else the pool is entered
RunStart ==
  /\ w_pc = "start"
  /\ IF w_filings = <<>>
     THEN w_pc' = "returned" /\ w_data' = NoneV
     ELSE w_pc' = "pool" /\ w_data' = w_data
  /\ w_task' = [i \in DOMAIN w_filings |-> "new"]
  /\ UNCHANGED <<w_max_workers, w_filings, w_all_results, w_order>>
  /\ UNCHANGED <<buildVars, matchVars, secVars, aggVars>>

\* lines 370-373: executor.submit for the next filing of the comprehension
Submit ==
  /\ w_pc = "pool"
  /\ \E i \in DOMAIN w_task :
        /\ w_task[i] = "new"
        /\ \A j \in 1..(i - 1) : w_task[j] # "new"
        /\ w_task' = [w_task EXCEPT ![i] = "queued"]
  /\ UNCHANGED <<w_pc, w_max_workers, w_filings, w_all_results, w_order, w_data>>
  /\ UNCHANGED <<buildVars, matchVars, secVars, aggVars>>

\* a thread of the pool, of which there are at most max_workers (line 369), takes
\* the oldest queued call of scrape_single_filing
Work ==
  /\ w_pc = "pool"
  /\ Cardinality(Running) < w_max_workers
  /\ \E i \in DOMAIN w_task :
        /\ w_task[i] = "queued"
        /\ \A j \in 1..(i - 1) : w_task[j] # "queued"
        /\ w_task' = [w_task EXCEPT ![i] = "running"]
  /\ UNCHANGED <<w_pc, w_max_workers, w_filings, w_all_results, w_order, w_data>>
  /\ UNCHANGED <<buildVars, matchVars, secVars, aggVars>>

\* lines 267-309: a call of scrape_single_filing ends
Finish ==
  /\ w_pc = "pool"
  /\ \E i \in Running :
        w_task' = [w_task EXCEPT ![i] = IF w_filings[i].outcome = "raise" THEN "raised"
                                        ELSE "done"]
  /\ UNCHANGED <<w_pc, w_max_workers, w_filings, w_all_results, w_order, w_data>>
  /\ UNCHANGED <<buildVars, matchVars, secVars, aggVars>>

\* lines 375-381: one turn of "for future in as_completed(future_to_filing)", which
\* starts once every filing is submitted
Collect ==
  /\ w_pc = "pool"
  /\ \A j \in DOMAIN w_task : w_task[j] # "new"
  /\ \E i \in DOMAIN w_task :
        \/ /\ w_task[i] = "done"
           /\ w_task' = [w_task EXCEPT ![i] = "collected"]
           /\ w_all_results' = Append(w_all_results, ScrapeResult(i, w_filings[i]))
           /\ w_order' = Append(w_order, i)
        \/ /\ w_task[i] = "raised"
           /\ w_task' = [w_task EXCEPT ![i] = "dropped"]
           /\ UNCHANGED <<w_all_results, w_order>>
  /\ UNCHANGED <<w_pc, w_max_workers, w_filings, w_data>>
  /\ UNCHANGED <<buildVars, matchVars, secVars, aggVars>>

\* line 384 and the return: the loop is left when every future was yielded
Aggregate ==
  /\ w_pc = "pool"
  /\ \A j \in DOMAIN w_task : w_task[j] \in {"collected", "dropped"}
  /\ w_all_results' = aggregate_statements(w_data, w_all_results).all_results
  /\ w_data' = aggregate_statements(w_data, w_all_results).data
  /\ w_pc' = "returned"
  /\ UNCHANGED <<w_max_workers, w_filings, w_task, w_order>>
  /\ UNCHANGED <<buildVars, matchVars, secVars, aggVars>>

NextScrape == RunStart \/ Submit \/ Work \/ Finish \/ Collect \/ Aggregate

SpecScrape == InitScrape /\ [][NextScrape]_vars

(***************************************************************************)
(* Properties of the run of build_unified_catalog                          *)
(***************************************************************************)
\* the period keys, normalized, that the values of the items of the input hold
InputPeriodKeys ==
  UNION {UNION {UNION {{normalize_year_key(it.values[j].k) : j \in DOMAIN it.values} :
                         it \in Range(sec.items)} :
                  sec \in Range(years_json[i].v.sections)} :
           i \in DOMAIN years_json}

\* the row a log entry tells of
LoggedRow(l) == DGet(flat_all, l.period)[l.row]

\* the period keys that the rows written to the entry of a key carried
WrittenYears(key) ==
  UNION {DKeys(LoggedRow(merge_log[n]).values) :
           n \in {m \in DOMAIN merge_log : merge_log[m].key = key}}

\* C1: once build_unified_catalog has returned, the values of every entry of the
\* ordered catalog have exactly the normalized period keys of all input rows as
\* their keys, and none of the values is None.
PeriodKeyTotality ==
  pc = "done" =>
    \A i \in DOMAIN ordered :
       /\ DKeys(ordered[i].v.values) = InputPeriodKeys
       /\ \A j \in DOMAIN ordered[i].v.values : ~IsNone(ordered[i].v.values[j].v)

\* a returned catalog with an entry that no row gave all the period keys
PeriodKeyTotalityWitness ==
  /\ pc = "done"
  /\ \E i \in DOMAIN ordered :
        /\ WrittenYears(ordered[i].k) # InputPeriodKeys
        /\ DKeys(ordered[i].v.values) = InputPeriodKeys

\* the year of a period key, as a number
YearOf(key) == IntOf(normalize_year_key(key))

\* what a merge step did to the value of period key P of entry E, when the row of
\* log entry l was merged into E
RecencyAt(l, P) ==
  LET row == DGet(flat_all', l.period)[l.row]
      v1 == DGet(DGet(unified, l.key).values, P)
      v2 == DGet(row.values, P)
  IN (/\ ~IsNone(v2)
      /\ v2 # v1
      /\ \E n \in DOMAIN merge_log :
            /\ merge_log[n].key = l.key
            /\ YearOf(merge_log[n].period) < YearOf(l.period)
            /\ DHas(LoggedRow(merge_log[n]).values, P)
            /\ CleanValue(DGet(LoggedRow(merge_log[n]).values, P)) = v1)
     => DGet(DGet(unified', l.key).values, P) = v2

RecencyStep ==
  (pc = "merge" /\ pc' \in {"merge", "zero_out"}) =>
    \A n \in (Len(merge_log) + 1)..Len(merge_log') :
       (merge_log'[n].how = "merged" /\ DHas(unified, merge_log'[n].key)) =>
         \A P \in DKeys(DGet(flat_all', merge_log'[n].period)[merge_log'[n].row].values)
                  \cap DKeys(DGet(unified, merge_log'[n].key).values) :
            RecencyAt(merge_log'[n], P)

\* C2: when an entry got value v1 for period key P from an older period and a row
\* matched to it is merged later from a newer period with another value v2 for P,
\* the entry holds v2 for P after that merge.
RecencyPrecedence == [][RecencyStep]_vars

\* the entries of a catalog: key, item, and values as a mapping
CatalogEntries(catalog) ==
  {[k |-> catalog[i].k,
    item_gaap |-> catalog[i].v.item_gaap,
    item_label |-> catalog[i].v.item_label,
    values |-> DAsMap(catalog[i].v.values)] : i \in DOMAIN catalog}

\* the input is one period document under two period keys of the same year
SuppliedTwice ==
  /\ Len(years_json) = 2
  /\ years_json[1].k = Y2024
  /\ years_json[2].k = Y2024Dec
  /\ years_json[1].v.sections = years_json[2].v.sections

\* C3: the catalog built from a period document supplied twice has the entries
\* (items and values) of the catalog built from the document supplied once.
Idempotence ==
  (pc = "done" /\ SuppliedTwice) =>
    CatalogEntries(ordered)
      = CatalogEntries(build_unified_catalog(Once(Doc(years_json[1].v.sections))).ordered)

\* the filings, newest first, whose rows hold the period key P
HoldersOf(P) ==
  {i \in DOMAIN years_sorted :
     \E n \in DOMAIN DGet(flat_all, years_sorted[i]) :
        DHas(DGet(flat_all, years_sorted[i])[n].values, P)}

\* the rows of the authoritative period of P: the first period, newest first, whose
\* rows contain P at all
AuthoritativeRows(P) ==
  DGet(flat_all, years_sorted[CHOOSE i \in HoldersOf(P) : \A j \in HoldersOf(P) : i <= j])

\* the text a value is compared by
ComparedText(v) ==
  LET w == IF v.d /\ v.hv THEN [v EXCEPT !.d = FALSE, !.hv = FALSE, !.m = ""] ELSE v
      t == RemoveChar(RemoveChar(StrOf(w), ","), " ")
  IN IF Len(t) >= 2 /\ t[1] = "(" /\ t[Len(t)] = ")"
     THEN <<"-">> \o SubSeq(t, 2, Len(t) - 1) ELSE t

\* a row matches an entry by tag, by label, or by its value for P
RowMatchesEntry(row, e, P) ==
  \/ (Truthy(e.item_gaap) /\ e.item_gaap = row.item_gaap)
  \/ normalize_label(e.item_label) = normalize_label(row.item_label)
  \/ (DHas(row.values, P) /\ ComparedText(DGet(row.values, P)) = ComparedText(DGet(e.values, P)))

\* the entry is backed for P: a row of its section in the authoritative period of P
\* matches it
Backed(e, P) ==
  \E n \in DOMAIN AuthoritativeRows(P) :
     /\ RowSecKey(AuthoritativeRows(P)[n]) = _sec_key(e.section_gaap, e.section_label)
     /\ RowMatchesEntry(AuthoritativeRows(P)[n], e, P)

\* C6: after zero_out_overlapping_years_for_new_items, every entry holds 0 for every
\* period key P whose authoritative period has no row of the entry's section that
\* matches the entry by tag, by label or by value for P.
PresenceReconciliation ==
  pc = "labels" =>
    \A i \in DOMAIN unified :
       \A j \in DOMAIN unified[i].v.values :
          (HoldersOf(unified[i].v.values[j].k) # {}
           /\ ~Backed(unified[i].v, unified[i].v.values[j].k))
          => EqZero(unified[i].v.values[j].v)

\* an entry that was given a value other than 0 for a period key that is not backed,
\* and holds 0 for it after the reconciliation
PresenceReconciliationWitness ==
  /\ pc = "labels"
  /\ \E i \in DOMAIN unified :
        \E j \in DOMAIN unified[i].v.values :
           /\ HoldersOf(unified[i].v.values[j].k) # {}
           /\ ~Backed(unified[i].v, unified[i].v.values[j].k)
           /\ EqZero(unified[i].v.values[j].v)
           /\ \E n \in DOMAIN merge_log :
                 /\ merge_log[n].key = unified[i].k
                 /\ DHas(LoggedRow(merge_log[n]).values, unified[i].v.values[j].k)
                 /\ ~EqZero(DGet(LoggedRow(merge_log[n]).values, unified[i].v.values[j].k))
                 /\ ~IsNone(DGet(LoggedRow(merge_log[n]).values, unified[i].v.values[j].k))

\* the catalog section the row of a log entry was sent to: the one its section was
\* bound to, its own when it was bound to none
SentTo(l) == IF l.target # NoneV THEN l.target ELSE l.sec

\* the sections of the rows of two log entries are bound to each other
SectionsBound(la, lb) ==
  \/ (lb.target # NoneV /\ lb.target = SentTo(la))
  \/ (la.target # NoneV /\ la.target = SentTo(lb))

\* the case of Scenario A: the row of la is of a newer period than the row of lb,
\* their sections are bound to each other, their tags differ, their normalized
\* labels are equal and not empty, and they agree on the period keys they share
LabelMatchCase(la, lb) ==
  /\ YearOf(la.period) > YearOf(lb.period)
  /\ SectionsBound(la, lb)
  /\ Truthy(LoggedRow(la).item_gaap) /\ Truthy(LoggedRow(lb).item_gaap)
  /\ LoggedRow(la).item_gaap # LoggedRow(lb).item_gaap
  /\ normalize_label(LoggedRow(la).item_label) # <<>>
  /\ normalize_label(LoggedRow(la).item_label) = normalize_label(LoggedRow(lb).item_label)
  /\ \A y \in DKeys(LoggedRow(la).values) \cap DKeys(LoggedRow(lb).values) :
        DGet(LoggedRow(la).values, y) = DGet(LoggedRow(lb).values, y)

\* the entries of the returned catalog in that section of that normalized label
EntriesOfLabel(sk, label) ==
  {i \in DOMAIN ordered :
     /\ PayloadSecKey(ordered[i].v) = sk
     /\ normalize_label(ordered[i].v.item_label) = normalize_label(label)}

\* the entry holds every period key of the row with the value the row supplied
HoldsRow(e, row) ==
  \A y \in DKeys(row.values) : DHas(e.values, y) /\ DGet(e.values, y) = DGet(row.values, y)

\* one entry for both rows, holding the values of both
OneEntryFor(la, lb) ==
  /\ Cardinality(EntriesOfLabel(SentTo(la), LoggedRow(la).item_label)) = 1
  /\ \A i \in EntriesOfLabel(SentTo(la), LoggedRow(la).item_label) :
        HoldsRow(ordered[i].v, LoggedRow(la)) /\ HoldsRow(ordered[i].v, LoggedRow(lb))

\* C7 as stated: whenever Scenario A's case holds of a row of a newer and a row of an
\* older input period, the returned catalog has exactly one entry for the two rows
\* and it holds every period key of both with the supplied value.
LabelMatchMerge ==
  pc = "done" =>
    \A m, n \in DOMAIN merge_log :
       LabelMatchCase(merge_log[m], merge_log[n])
       => OneEntryFor(merge_log[m], merge_log[n])

\* the input is two periods of one item each, none of whose values is None
TwoSingleItemPeriods ==
  /\ Len(years_json) = 2
  /\ \A i \in DOMAIN years_json :
        /\ Len(flatten_with_positions(years_json[i].v)) = 1
        /\ \A n \in DOMAIN flatten_with_positions(years_json[i].v)[1].values :
              ~IsNone(flatten_with_positions(years_json[i].v)[1].values[n].v)

\* C7, amended: when the input is exactly a newer and an older period of one item
\* each, with no None value, and Scenario A's case holds of the two items, the
\* returned catalog has exactly one entry for them and it holds every period key of
\* both with the supplied value.
LabelMatchMergeOfSingleItems ==
  (pc = "done" /\ TwoSingleItemPeriods) =>
    \A m, n \in DOMAIN merge_log :
       LabelMatchCase(merge_log[m], merge_log[n])
       => OneEntryFor(merge_log[m], merge_log[n])

\* a returned catalog of two single-item periods in Scenario A's case, the row of the
\* period merged second having been merged into the entry of the other
LabelMatchMergeWitness ==
  /\ pc = "done"
  /\ TwoSingleItemPeriods
  /\ \E m, n \in DOMAIN merge_log :
        /\ LabelMatchCase(merge_log[m], merge_log[n])
        /\ OneEntryFor(merge_log[m], merge_log[n])
        /\ merge_log[m].key = merge_log[n].key
        /\ "merged" \in {merge_log[m].how, merge_log[n].how}

\* the log entries of the rows of a period that were written to the entry of a key
WritesOf(key, period) ==
  {n \in DOMAIN merge_log :
     /\ merge_log[n].key = key
     /\ merge_log[n].period = period
     /\ merge_log[n].how # "dropped"}

\* every entry of the returned catalog was written at most one row of each period
OneRowPerPeriod ==
  \A i \in DOMAIN ordered : \A p \in DOMAIN years_sorted :
     Cardinality(WritesOf(ordered[i].k, years_sorted[p])) <= 1

\* the entry is absent from the most recent period
OlderOnly(key) == WritesOf(key, years_sorted[1]) = {}

\* the most recent period where the entry occurs
LastSeenIn(key) ==
  years_sorted[CHOOSE p \in DOMAIN years_sorted :
                 /\ WritesOf(key, years_sorted[p]) # {}
                 /\ \A q \in 1..(p - 1) : WritesOf(key, years_sorted[q]) = {}]

\* the position of the entry's item in the most recent period where it occurs
ItemPosition(key) ==
  LoggedRow(merge_log[CHOOSE n \in WritesOf(key, LastSeenIn(key)) : TRUE]).position

\* the spine items of the section of the older-only entry i that it is placed before
SpineAfter(i) ==
  {j \in DOMAIN ordered :
     /\ PayloadSecKey(ordered[j].v) = PayloadSecKey(ordered[i].v)
     /\ ~OlderOnly(ordered[j].k)
     /\ ItemPosition(ordered[j].k) >= ItemPosition(ordered[i].k)}

\* the older-only entry i is after the spine items of lower position and before the
\* others
Anchored(i) ==
  \A j \in DOMAIN ordered :
     (PayloadSecKey(ordered[j].v) = PayloadSecKey(ordered[i].v) /\ ~OlderOnly(ordered[j].k))
     => IF j \in SpineAfter(i) THEN i < j ELSE j < i

\* C8: in the returned catalog every older-only entry comes after the spine items of
\* its section whose position in the most recent period is below its own position (in
\* the most recent period where it occurs) and before all the others, and older-only
\* entries of one section with the same anchor are in the order of their normalized
\* labels.
OlderOnlyAnchoring ==
  (pc = "done" /\ OneRowPerPeriod) =>
    \A i \in DOMAIN ordered :
       OlderOnly(ordered[i].k) =>
         /\ Anchored(i)
         /\ \A j \in DOMAIN ordered :
               (/\ OlderOnly(ordered[j].k)
                /\ PayloadSecKey(ordered[j].v) = PayloadSecKey(ordered[i].v)
                /\ SpineAfter(j) = SpineAfter(i)
                /\ StrLess(normalize_label(ordered[i].v.item_label),
                           normalize_label(ordered[j].v.item_label)))
               => i < j

\* the value is empty or zero: None, the number 0, or a text that is empty or reads 0
\* once the blanks around it are dropped; a cell counts by the value it holds
EmptyOrZero(v) ==
  IF v.d THEN v.hv /\ (\/ v.k = "none"
                       \/ (v.k \in {"int", "float"} /\ v.n = 0)
                       \/ (v.k = "str" /\ Strip(v.s) \in {<<>>, <<"0">>, <<"0", ".", "0">>}))
  ELSE \/ v.k = "none"
       \/ (v.k \in {"int", "float"} /\ v.n = 0)
       \/ (v.k = "str" /\ Strip(v.s) \in {<<>>, <<"0">>, <<"0", ".", "0">>})

\* every value of the item in the overlap periods is empty, zero or absent
AllBlank(item, overlap_years) ==
  \A y \in overlap_years : DHas(item.values, y) => EmptyOrZero(DGet(item.values, y))

\* C5: when neither the tag tier nor the label tier succeeds and every value of both
\* items in the overlap periods is empty, zero or absent, match_line_items returns
\* false.
NoZeroCollision ==
  (/\ m_pc = "returned"
   /\ ~GaapTier(m_item1, m_item2, m_ignore_gaap)
   /\ ~LabelTier(m_item1, m_item2)
   /\ AllBlank(m_item1, m_overlap_years)
   /\ AllBlank(m_item2, m_overlap_years))
  => ~m_result

\* the map has one entry for every candidate section of the rows, sends it to a
\* section of the catalog or to None, and sends no two to the same section
OneToOne(map) ==
  /\ {map[i].k : i \in DOMAIN map} = {RowSecKey(s_rows[n]) : n \in DOMAIN s_rows}
  /\ \A i, j \in DOMAIN map : i # j => map[i].k # map[j].k
  /\ \A i \in DOMAIN map :
        map[i].v = NoneV \/ \E n \in DOMAIN s_unified : PayloadSecKey(s_unified[n].v) = map[i].v
  /\ \A i, j \in DOMAIN map : (i # j /\ map[i].v # NoneV) => map[i].v # map[j].v

\* C4: the map of _build_greedy_section_map, and the map
\* _apply_fallback_section_matching makes of it, send each candidate section to at
\* most one catalog section and no two candidate sections to the same one.
SectionOneToOne ==
  /\ s_pc \in {"fallback", "mapped"} => OneToOne(s_greedy_map)
  /\ s_pc = "mapped" => OneToOne(s_updated_map)

\* the candidate section of the n-th row passes the gate with the catalog section sk
PassesGate(n, sk) ==
  \E u \in DOMAIN s_unified :
     /\ PayloadSecKey(s_unified[u].v) = sk
     /\ _same_section_gate(s_unified[u].v.section_gaap, s_unified[u].v.section_label,
                           s_rows[n].section_gaap, s_rows[n].section_label)

\* two candidate sections pass the gate with the same catalog section, which went to
\* the first, and the fallback has bound a section that the greedy pass left unbound
SectionOneToOneWitness ==
  /\ s_pc = "mapped"
  /\ \E m, n \in DOMAIN s_rows :
        /\ RowSecKey(s_rows[m]) # RowSecKey(s_rows[n])
        /\ DGet(s_updated_map, RowSecKey(s_rows[m])) # NoneV
        /\ PassesGate(m, DGet(s_updated_map, RowSecKey(s_rows[m])))
        /\ PassesGate(n, DGet(s_updated_map, RowSecKey(s_rows[m])))
        /\ DGet(s_greedy_map, RowSecKey(s_rows[n])) = NoneV
        /\ DGet(s_updated_map, RowSecKey(s_rows[n])) # NoneV

\* results is a mapping that has a catalog for every statement type
MappingOfCatalogs(results) ==
  /\ \A i, j \in DOMAIN results : i # j => results[i].k # results[j].k
  /\ \A i \in DOMAIN statement_types : DHas(results, <<statement_types[i]>>)

\* C9: build_unified_catalog_all_statements never raises: it returns a mapping, and
\* when an exception reached the outer handler it returns empty catalogs for
\* income_statement, balance_sheet and cash_flow_statement.
NeverRaises ==
  /\ a_pc # "raised"
  /\ a_pc = "returned" =>
       /\ MappingOfCatalogs(a_results)
       /\ "outer" \in a_caught => a_results = ThreeEmpty

\* the call returned although an exception occurred outside the handling of a
\* statement type, or inside that of every statement type
NeverRaisesWitness ==
  /\ a_pc = "returned"
  /\ \/ "outer" \in a_caught /\ a_results = ThreeEmpty
     \/ \A i \in DOMAIN statement_types : statement_types[i] \in a_caught

\* the argument without the data of a statement type
WithoutStatement(input, stmt_type) ==
  [input EXCEPT !.years =
     [i \in DOMAIN @ |->
        [k |-> @[i].k,
         v |-> [@[i].v EXCEPT !.stmts = SelectSeq(@, LAMBDA e : e.k # stmt_type)]]]]

\* processing the statement type failed: its handler ran, or its result is empty
FailedStatement(stmt_type) ==
  stmt_type \in a_caught \/ DGet(a_results, <<stmt_type>>) = <<>>

\* C10: when processing a statement type failed (an exception or an empty result),
\* its catalog is empty and the catalogs of the other statement types are those the
\* function returns for the argument without the data of the failing type (the
\* argument as the call left it: flattening only assigned the documents' "periods").
StatementIsolation ==
  a_pc = "returned" =>
    \A t, u \in Range(statement_types) :
       FailedStatement(t) =>
         /\ DGet(a_results, <<t>>) = <<>>
         /\ u # t =>
              DGet(a_results, <<u>>)
                = DGet(build_unified_catalog_all_statements(
                         WithoutStatement(a_years_json, t)).results, <<u>>)

\* the handler of one statement type ran and another statement type has a catalog
\* that is not empty
StatementIsolationWitness ==
  /\ a_pc = "returned"
  /\ \E t, u \in Range(statement_types) :
        /\ t \in a_caught
        /\ DGet(a_results, <<t>>) = <<>>
        /\ DGet(a_results, <<u>>) # <<>>

\* statement type t has no data: the argument has no usable "years", or every
\* period is None, lacks t, or holds for t a document with an "error" field
NoDataFor(t) ==
  \/ ~a_years_json.ismapping
  \/ a_years_json.years_kind # "dict"
  \/ \A i \in DOMAIN a_years_json.years :
        \/ ~a_years_json.years[i].v.isdict
        \/ ~DHas(a_years_json.years[i].v.stmts, t)
        \/ "error" \in DGet(a_years_json.years[i].v.stmts, t).keys

RepairedDoc(doc) ==
  [isdict |-> doc.isdict, keys |-> doc.keys \cup {"sections"}, periods |-> doc.periods,
   sections |->
     [i \in DOMAIN doc.sections |->
        Section(doc.sections[i].gaap, doc.sections[i].section,
                [j \in DOMAIN doc.sections[i].items |->
                   Item(doc.sections[i].items[j].gaap, doc.sections[i].items[j].label,
                        doc.sections[i].items[j].values)])]]

Repaired(input) == [i \in DOMAIN input |-> Entry(input[i].k, RepairedDoc(input[i].v))]

LacksSections(doc) == "sections" \notin doc.keys

LacksValues(doc) ==
  \E i \in DOMAIN doc.sections :
    \E j \in DOMAIN doc.sections[i].items : ~doc.sections[i].items[j].has_values

\* C12: a period document without "sections", or with items without "values", does
\* not make build_unified_catalog raise, and the returned catalog is the one the
\* same input gives with an empty "sections" list and empty "values" dicts in
\* their place
MalformedAsEmpty ==
  (\E i \in DOMAIN years_json : LacksSections(years_json[i].v) \/ LacksValues(years_json[i].v))
    => /\ pc # "raised"
       /\ pc = "done" => ordered = build_unified_catalog(Repaired(years_json)).ordered

\* a returned run of two periods, one without "sections" and one with an item
\* without "values", whose catalog has the items of the latter
MalformedAsEmptyWitness ==
  /\ pc = "done"
  /\ Len(years_json) = 2
  /\ \E i \in DOMAIN years_json : LacksSections(years_json[i].v)
  /\ \E i \in DOMAIN years_json : LacksValues(years_json[i].v)
  /\ Len(ordered) = 2

\* the input with its periods re-inserted newest first
NewestFirst(input) ==
  [i \in DOMAIN input |->
     Entry(SortedDesc(DKeySeq(input))[i], DGet(input, SortedDesc(DKeySeq(input))[i]))]

\* a returned catalog as == compares two of them: the keys in order, the payloads
\* with their values as mappings
Compared(catalog) ==
  [i \in DOMAIN catalog |->
     [k |-> catalog[i].k,
      section_gaap |-> catalog[i].v.section_gaap,
      section_label |-> catalog[i].v.section_label,
      item_gaap |-> catalog[i].v.item_gaap,
      item_label |-> catalog[i].v.item_label,
      values |-> DAsMap(catalog[i].v.values)]]

\* C13: the periods are merged newest first whatever the insertion order of the
\* supplied mapping: the returned catalog is the one the same periods give when
\* supplied newest first
InsertionOrderIrrelevant ==
  pc = "done" =>
    Compared(ordered) = Compared(build_unified_catalog(NewestFirst(years_json)).ordered)

\* the section keys of the returned catalog
FinalSections == {PayloadSecKey(ordered[i].v) : i \in DOMAIN ordered}

\* where the entries of a section stand in the returned catalog
PlacesOf(sk) == {i \in DOMAIN ordered : PayloadSecKey(ordered[i].v) = sk}

\* section s stands wholly before section t in the returned catalog
Before(s, t) == \A i \in PlacesOf(s), j \in PlacesOf(t) : i < j

\* the rows of the most recent period (their indices in its flattened rows) that
\* were written into an entry of the section
LatestRowsInto(sk) ==
  {merge_log[n].row : n \in {n \in DOMAIN merge_log :
                               /\ merge_log[n].period = years_sorted[1]
                               /\ DHas(ordered, merge_log[n].key)
                               /\ PayloadSecKey(DGet(ordered, merge_log[n].key)) = sk}}

Least(S) == CHOOSE x \in S : \A y \in S : x <= y

\* where the first entry of the section stands in the catalog (insertion order)
InsertedAt(sk) == Least({i \in DOMAIN unified : PayloadSecKey(unified[i].v) = sk})

\* C14: the sections of the returned catalog that occur in the most recent period
\* stand in the order of their first appearance in that period's rows; the
\* sections absent from it stand after all of those, in catalog-insertion order
SectionOrder ==
  pc = "done" =>
    \A s, t \in FinalSections :
      s # t =>
        /\ (LatestRowsInto(s) # {} /\ LatestRowsInto(t) # {}
              /\ Least(LatestRowsInto(s)) < Least(LatestRowsInto(t))) => Before(s, t)
        /\ (LatestRowsInto(s) # {} /\ LatestRowsInto(t) = {}) => Before(s, t)
        /\ (LatestRowsInto(s) = {} /\ LatestRowsInto(t) = {}
              /\ InsertedAt(s) < InsertedAt(t)) => Before(s, t)

\* the periods were supplied newest first
SuppliedNewestFirst == DKeySeq(years_json) = SortedDesc(DKeySeq(years_json))

\* the section order of C14 for periods supplied newest first
SectionOrderNewestFirst == SuppliedNewestFirst => SectionOrder

\* a returned catalog of periods supplied newest first with two sections of the
\* most recent period and a section that is absent from it
SectionOrderWitness ==
  /\ pc = "done"
  /\ SuppliedNewestFirst
  /\ Cardinality({s \in FinalSections : LatestRowsInto(s) # {}}) = 2
  /\ \E t \in FinalSections : LatestRowsInto(t) = {}

\* the entries at i and j of the returned catalog are spine entries of one section
SpinePair(i, j) ==
  /\ PayloadSecKey(ordered[i].v) = PayloadSecKey(ordered[j].v)
  /\ ~OlderOnly(ordered[i].k)
  /\ ~OlderOnly(ordered[j].k)

\* by position in the most recent period, then by normalized label
SpineLess(i, j) ==
  \/ ItemPosition(ordered[i].k) < ItemPosition(ordered[j].k)
  \/ /\ ItemPosition(ordered[i].k) = ItemPosition(ordered[j].k)
     /\ StrLess(normalize_label(ordered[i].v.item_label),
                normalize_label(ordered[j].v.item_label))

\* C15: within a section of the returned catalog the entries whose item is present
\* in the most recent period stand in increasing order of their position in that
\* period, ties by normalized label, whatever older-only entries stand between them
SpineOrder ==
  (pc = "done" /\ OneRowPerPeriod) =>
    \A i, j \in DOMAIN ordered : (SpinePair(i, j) /\ SpineLess(i, j)) => i < j

\* the spine order of C15 for periods supplied newest first
SpineOrderNewestFirst == SuppliedNewestFirst => SpineOrder

\* a returned catalog of periods supplied newest first where an older-only entry
\* stands between two spine entries of its section
SpineOrderWitness ==
  /\ pc = "done"
  /\ OneRowPerPeriod
  /\ SuppliedNewestFirst
  /\ \E i, j, n \in DOMAIN ordered :
        /\ SpinePair(i, j) /\ SpineLess(i, j)
        /\ i < n /\ n < j
        /\ OlderOnly(ordered[n].k)
        /\ PayloadSecKey(ordered[n].v) = PayloadSecKey(ordered[i].v)

\* the section map of the period that the next turn of the merge loop merges, after
\* the identity pass and after the similarity fallback
IdentityMap == _build_greedy_section_map(unified, flat_all[merged + 1].v)

SimilarityMap ==
  _apply_fallback_section_matching(unified, flat_all[merged + 1].v, IdentityMap)

\* what a turn of the merge loop appended to the log
LoggedByTurn == {n \in DOMAIN merge_log' : n > Len(merge_log)}

FallbackStep ==
  (pc = "merge" /\ merged' = merged + 1) =>
    \A i \in DOMAIN IdentityMap :
       (IdentityMap[i].v = NoneV /\ DGet(SimilarityMap, IdentityMap[i].k) # NoneV) =>
         \A n \in LoggedByTurn :
            merge_log'[n].sec = IdentityMap[i].k =>
              /\ merge_log'[n].target = DGet(SimilarityMap, IdentityMap[i].k)
              /\ PayloadSecKey(DGet(unified', merge_log'[n].key))
                   = DGet(SimilarityMap, IdentityMap[i].k)

\* C16: in every turn of the merge loop, the rows of a candidate section that the
\* identity pass left unmatched and that the similarity fallback (threshold 0.5)
\* binds to an unclaimed catalog section are merged into that catalog section
FallbackInMerge == [][FallbackStep]_vars

\* the row of log entry l, merged into an existing entry by a turn of the merge
\* loop, and what the turn did to period key P of the entry: a key the entry held
\* changes its value only when an older period recorded the value it had, and a key
\* the entry did not hold is added with the value of the row
WriteAt(l, P) ==
  LET row == DGet(flat_all', l.period)[l.row]
      before == DGet(unified, l.key).values
      after == DGet(unified', l.key).values
  IN IF DHas(before, P)
     THEN DGet(after, P) # DGet(before, P) =>
            \E n \in DOMAIN merge_log :
               /\ merge_log[n].key = l.key
               /\ DHas(LoggedRow(merge_log[n]).values, P)
               /\ DGet(before, P) \in {DGet(LoggedRow(merge_log[n]).values, P),
                                        CleanValue(DGet(LoggedRow(merge_log[n]).values, P))}
               /\ YearOf(merge_log[n].period) < YearOf(l.period)
     ELSE /\ DHas(after, P)
          /\ DGet(after, P) \in {DGet(row.values, P), CleanValue(DGet(row.values, P))}

WriteStep ==
  (pc = "merge" /\ pc' \in {"merge", "zero_out"}) =>
    \A n \in LoggedByTurn :
       (/\ merge_log'[n].how = "merged"
        /\ DHas(unified, merge_log'[n].key)
        /\ \A m \in LoggedByTurn : merge_log'[m].key = merge_log'[n].key => m = n) =>
         \A P \in DKeys(DGet(flat_all', merge_log'[n].period)[merge_log'[n].row].values) :
            WriteAt(merge_log'[n], P)

\* C17: when a row is merged into an existing entry, a period key the entry holds
\* is overwritten only if the period being merged is newer than the period that
\* recorded the key's value, and a period key the entry does not hold is added
OverwriteOnlyIfNewer == [][WriteStep]_vars

\* tier 1 as stated: the tag is not ignored and both items carry the same non-empty
\* tag
StatedTagTier ==
  ~m_ignore_gaap /\ Truthy(m_item1.item_gaap) /\ m_item1.item_gaap = m_item2.item_gaap

\* tier 2 as stated: the normalized labels are equal and non-empty
StatedLabelTier ==
  /\ normalize_label(m_item1.item_label) = normalize_label(m_item2.item_label)
  /\ normalize_label(m_item1.item_label) # <<>>

\* the map of the non-empty, non-zero normalized values of the item in the overlap
StatedValues(item) ==
  {<<y, normalize_value(extract_value(DGet(item.values, y)))>> :
     y \in {y \in m_overlap_years :
              DHas(item.values, y) /\ ~EmptyOrZero(DGet(item.values, y))}}

\* tier 3 as stated
StatedValueTier ==
  /\ StatedValues(m_item1) # {}
  /\ StatedValues(m_item2) # {}
  /\ StatedValues(m_item1) = StatedValues(m_item2)

\* C18: match_line_items returns true exactly when the tag tier, the label tier
\* (equal and non-empty normalized labels) or the value tier (non-empty and equal
\* maps of non-empty, non-zero normalized values of the overlap) holds
WaterfallExact ==
  m_pc = "returned" => (m_result <=> (StatedTagTier \/ StatedLabelTier \/ StatedValueTier))

\* C18, in particular: two items whose labels are both empty, with different tags and
\* no equal values, do not match
EmptyLabelsDoNotMatch ==
  (/\ m_pc = "returned"
   /\ normalize_label(m_item1.item_label) = <<>>
   /\ normalize_label(m_item2.item_label) = <<>>
   /\ m_item1.item_gaap # m_item2.item_gaap
   /\ DAsMap(m_item1.values) \cap DAsMap(m_item2.values) = {})
  => ~m_result

\* the tag of the row of log entry n (a row of rows) occurs on more than one row of
\* its section of its period
Colliding(log, rows, n) ==
  /\ Truthy(rows[log[n].row].item_gaap)
  /\ Cardinality({m \in DOMAIN log :
                    /\ log[m].period = log[n].period
                    /\ log[m].sec = log[n].sec
                    /\ rows[log[m].row].item_gaap = rows[log[n].row].item_gaap}) > 1

\* a row with a colliding tag that is merged into an entry matches it by label or by
\* values; one that creates an entry creates it under its normalized label
\* (the entry is compared as the turn found it when no other row of the turn was
\* written to it)
CollidingWrite(l, row, alone) ==
  /\ (l.how = "merged" /\ DHas(unified, l.key) /\ alone) =>
        \/ LabelTier(row, DGet(unified, l.key))
        \/ ValueTier(row, DGet(unified, l.key), OverlapYears(row, DGet(unified, l.key)))
  /\ l.how = "created" => l.key = UnifiedKey(normalize_label(row.item_label), l.sec)

CollisionStep ==
  (pc = "merge" /\ merged' = merged + 1) =>
    \A n \in LoggedByTurn :
       Colliding(merge_log', flat_all'[merged + 1].v, n) =>
         CollidingWrite(merge_log'[n], flat_all'[merged + 1].v[merge_log'[n].row],
                        \A m \in LoggedByTurn : merge_log'[m].key = merge_log'[n].key => m = n)

\* C19: in every turn of the merge loop, a row whose tag occurs on more than one
\* item of its section of the period is merged into an existing entry only through
\* the label or the value tier, and when it creates an entry the entry is keyed by
\* the row's normalized label
CollidingTagsIgnored == [][CollisionStep]_vars

\* a returned run in which a row with a colliding tag created an entry under its
\* label although its section was bound to a catalog section that held an entry of
\* the same tag from another period, which no row of its period was written to, and
\* another row with a colliding tag was merged
CollidingTagsIgnoredWitness ==
  /\ pc = "done"
  /\ \E n, m, k \in DOMAIN merge_log :
        /\ Colliding(merge_log, DGet(flat_all, merge_log[n].period), n)
        /\ merge_log[n].how = "created"
        /\ merge_log[n].target # NoneV
        /\ m < n
        /\ merge_log[m].period # merge_log[n].period
        /\ LoggedRow(merge_log[m]).item_gaap = LoggedRow(merge_log[n]).item_gaap
        /\ \A j \in DOMAIN merge_log :
              merge_log[j].period = merge_log[n].period => merge_log[j].key # merge_log[m].key
        /\ merge_log[k].period = merge_log[n].period
        /\ Colliding(merge_log, DGet(flat_all, merge_log[k].period), k)
        /\ merge_log[k].how = "merged"

\* C20: while a period is merged no two distinct rows of it are written into (merged
\* into, or created as) the same catalog entry
ItemOneToOne ==
  \A m, n \in DOMAIN merge_log :
     (/\ m # n
      /\ merge_log[m].period = merge_log[n].period
      /\ merge_log[m].how # "dropped"
      /\ merge_log[n].how # "dropped")
     => merge_log[m].key # merge_log[n].key

\* the part of C20 that the greedy item map is about: no two distinct rows of a
\* period are merged into the same existing entry
MergedOneToOne ==
  \A m, n \in DOMAIN merge_log :
     (/\ m # n
      /\ merge_log[m].period = merge_log[n].period
      /\ merge_log[m].how = "merged"
      /\ merge_log[n].how = "merged")
     => merge_log[m].key # merge_log[n].key


\* the section keys of the catalog u
SectionKeysOf(u) == {PayloadSecKey(u[i].v) : i \in DOMAIN u}

\* after the turn, the entries written for two candidate sections of the period lie
\* in different catalog sections, and the entries created for an unbound candidate
\* section lie in no section the catalog had before the turn
CollapseStep ==
  (pc = "merge" /\ pc' \in {"merge", "zero_out"}) =>
    /\ \A m, n \in LoggedByTurn :
          merge_log'[m].sec # merge_log'[n].sec =>
            PayloadSecKey(DGet(unified', merge_log'[m].key)) #
              PayloadSecKey(DGet(unified', merge_log'[n].key))
    /\ \A n \in LoggedByTurn :
          (merge_log'[n].how = "created" /\ merge_log'[n].target = NoneV) =>
            PayloadSecKey(DGet(unified', merge_log'[n].key)) \notin SectionKeysOf(unified)

\* C21: after a period has been merged no catalog section holds entries written by
\* rows of two distinct candidate sections of that period, and the entries created
\* for an unbound candidate section lie in no catalog section that existed before
\* the period was merged
NoSectionCollapse == [][CollapseStep]_vars

\* the part of C21 the greedy section map is responsible for: no two candidate
\* sections of a period are bound to the same catalog section
BoundOneToOne ==
  \A m, n \in DOMAIN merge_log :
     (/\ merge_log[m].period = merge_log[n].period
      /\ merge_log[m].sec # merge_log[n].sec
      /\ merge_log[m].target # NoneV) =>
       merge_log[m].target # merge_log[n].target


\* the rows of a candidate section that the turn bound to a catalog section carry
\* the section_gaap and section_label of the first entry of that section, and after
\* the turn the entries of one catalog section carry one section tag and label
RewriteStep ==
  (pc = "merge" /\ pc' \in {"merge", "zero_out"}) =>
    /\ \A n \in LoggedByTurn :
          merge_log'[n].target # NoneV =>
            LET t == DGet(_build_unified_section_index(unified), merge_log'[n].target)[1]
                row == flat_all'[merged + 1].v[merge_log'[n].row]
            IN /\ row.section_gaap = t.section_gaap
               /\ row.section_label = t.section_label
    /\ \A i, j \in DOMAIN unified' :
          PayloadSecKey(unified'[i].v) = PayloadSecKey(unified'[j].v) =>
            /\ unified'[i].v.section_gaap = unified'[j].v.section_gaap
            /\ unified'[i].v.section_label = unified'[j].v.section_label

\* C22: in every turn of the merge loop, every row of a candidate section bound to a
\* catalog section carries the target section's section_gaap and section_label, and
\* so all entries of one catalog section carry the same section tag and label
SectionRewrite == [][RewriteStep]_vars

\* the part of C22 that lines 787-802 implement: the rows of a candidate section
\* bound to a catalog section of another key carry that section's metadata
RewriteOtherKeyStep ==
  (pc = "merge" /\ pc' \in {"merge", "zero_out"}) =>
    \A n \in LoggedByTurn :
       (merge_log'[n].target # NoneV /\ merge_log'[n].target # merge_log'[n].sec) =>
         LET t == DGet(_build_unified_section_index(unified), merge_log'[n].target)[1]
             row == flat_all'[merged + 1].v[merge_log'[n].row]
         IN /\ row.section_gaap = t.section_gaap
            /\ row.section_label = t.section_label

SectionRewriteOtherKey == [][RewriteOtherKeyStep]_vars


\* the rows of the i-th period as flatten_with_positions returns them
RawRows(i) == flatten_with_positions(years_json[i].v)

\* the first row of raw that carries the section tag of its j-th row
FirstUse(raw, j) ==
  CHOOSE f \in DOMAIN raw :
    /\ raw[f].section_gaap = raw[j].section_gaap
    /\ \A h \in DOMAIN raw : raw[h].section_gaap = raw[j].section_gaap => f <= h

\* the section label of the j-th row differs, normalized, from the label its tag
\* was first used under
UnderOtherLabel(raw, j) ==
  normalize_label(raw[FirstUse(raw, j)].section_label) # normalize_label(raw[j].section_label)

\* C23: once the rows of the periods are flattened and flagged, every row whose
\* section tag was first used in its period under a different normalized section
\* label has an empty section tag, and every row whose section label equals the
\* first label of its tag keeps the tag
DuplicateSectionTags ==
  (pc = "merge" /\ merged = 0) =>
    \A i \in DOMAIN years_json : \A j \in DOMAIN RawRows(i) :
       Truthy(RawRows(i)[j].section_gaap) =>
         IF UnderOtherLabel(RawRows(i), j)
         THEN ~Truthy(flat_all[i].v[j].section_gaap)
         ELSE flat_all[i].v[j].section_gaap = RawRows(i)[j].section_gaap

\* a period in which a tag was used under a first label, then under another label
\* (that row lost the tag), then under the first label again (that row kept it)
DuplicateSectionTagsWitness ==
  /\ pc = "merge"
  /\ merged = 0
  /\ \E i \in DOMAIN years_json : \E j, k \in DOMAIN RawRows(i) :
        /\ Truthy(RawRows(i)[j].section_gaap)
        /\ RawRows(i)[k].section_gaap = RawRows(i)[j].section_gaap
        /\ FirstUse(RawRows(i), j) < j
        /\ j < k
        /\ UnderOtherLabel(RawRows(i), j)
        /\ ~UnderOtherLabel(RawRows(i), k)
        /\ ~Truthy(flat_all[i].v[j].section_gaap)
        /\ flat_all[i].v[k].section_gaap = RawRows(i)[k].section_gaap


\* a returned run in which a row of the older period, supplied second, created its
\* entry under the key of an entry of the newer period
ReplacedByLaterPeriod ==
  /\ pc = "done"
  /\ \E m, n \in DOMAIN merge_log :
        /\ m < n
        /\ merge_log[m].period # merge_log[n].period
        /\ merge_log[m].key = merge_log[n].key
        /\ merge_log[n].how = "created"
        /\ LoggedRow(merge_log[m]).item_label # LoggedRow(merge_log[n]).item_label

\* the entry under key k is kept by the step: same item tag and label, and a values
\* map that has every period key it had
EntryKept(k) ==
  /\ DHas(unified', k)
  /\ DGet(unified', k).item_gaap = DGet(unified, k).item_gaap
  /\ DGet(unified', k).item_label = DGet(unified, k).item_label
  /\ DKeys(DGet(unified, k).values) \subseteq DKeys(DGet(unified', k).values)

\* a row that creates an entry creates it under a key that neither the catalog before
\* the turn nor an earlier row of the turn has used
CreatedFresh(n) ==
  merge_log'[n].how = "created" =>
    /\ ~DHas(unified, merge_log'[n].key)
    /\ \A m \in LoggedByTurn : m < n => merge_log'[m].key # merge_log'[n].key

EntryStep ==
  /\ \A k \in DKeys(unified) : EntryKept(k)
  /\ \A n \in LoggedByTurn : CreatedFresh(n)

\* C24: once an entry exists under a key no row of the same or a later period
\* replaces it: in every step of build_unified_catalog the entry keeps its item_gaap
\* and item_label and every period key of its values, and entries are only created
\* under unused keys
EntriesCreatedOnce == [][EntryStep]_vars


\* no key of the catalog is lost by the step, and the ordered catalog the step
\* returns lists exactly the keys of the catalog, each once
KeysStep ==
  /\ DKeys(unified) \subseteq DKeys(unified')
  /\ pc' = "done" =>
       /\ DKeys(ordered') = DKeys(unified)
       /\ \A i, j \in DOMAIN ordered' : ordered'[i].k = ordered'[j].k => i = j

\* C25: the set of catalog keys never shrinks while the periods are merged, while
\* the reconciler runs or afterwards, and the returned ordered catalog contains
\* exactly the keys of the merged catalog, each once
NoEntryDeleted == [][KeysStep]_vars

\* a returned run of two periods and at least three entries, one of them absent from
\* the most recent period, in which the reconciler zeroed a value and the returned
\* order differs from the order of creation
NoEntryDeletedWitness ==
  /\ pc = "done"
  /\ Len(flat_all) >= 2
  /\ Len(unified) >= 3
  /\ DKeySeq(ordered) # DKeySeq(unified)
  /\ \E n \in DOMAIN merge_log :
        /\ merge_log[n].period # years_sorted[1]
        /\ \A m \in DOMAIN merge_log :
              merge_log[m].key = merge_log[n].key => merge_log[m].period # years_sorted[1]
        /\ \E P \in DKeys(LoggedRow(merge_log[n]).values) :
              /\ ValTruthy(DGet(LoggedRow(merge_log[n]).values, P))
              /\ EqZero(DGet(DGet(ordered, merge_log[n].key).values, P))


\* section key -> [gaap, label] of the sections of the most recent period, as its
\* document has them once it is flattened and flagged
LatestSections ==
  _candidate_sections_in_order(DGet(FlatAll(years_json), years_sorted[1]))

\* C26: in the returned catalog every entry whose section key occurs in the most
\* recent period carries the section label and the section tag that the most recent
\* period uses for that section
SectionLabelCanonical ==
  pc = "done" =>
    \A i \in DOMAIN ordered :
       DHas(LatestSections, PayloadSecKey(ordered[i].v)) =>
         /\ ordered[i].v.section_label = DGet(LatestSections, PayloadSecKey(ordered[i].v)).label
         /\ ordered[i].v.section_gaap = DGet(LatestSections, PayloadSecKey(ordered[i].v)).gaap

\* C26 for periods supplied newest first
SectionLabelCanonicalNewestFirst == SuppliedNewestFirst => SectionLabelCanonical

\* a returned run, periods supplied newest first, in which an entry created from an
\* older period under another section label carries the label of the most recent
\* period
SectionLabelCanonicalWitness ==
  /\ pc = "done"
  /\ SuppliedNewestFirst
  /\ \E n \in DOMAIN merge_log :
        /\ merge_log[n].how = "created"
        /\ merge_log[n].period # years_sorted[1]
        /\ DHas(ordered, merge_log[n].key)
        /\ DHas(LatestSections, PayloadSecKey(DGet(ordered, merge_log[n].key)))
        /\ \A m \in DOMAIN merge_log : merge_log[m].key = merge_log[n].key => m = n
        /\ DGet(ordered, merge_log[n].key).section_label
             # DGet(FlatAll(years_json), merge_log[n].period)[merge_log[n].row].section_label


\* how many items the sections before the s-th section of a document have
RECURSIVE ItemsBefore(_, _)
ItemsBefore(secs, s) == IF s <= 1 THEN 0 ELSE ItemsBefore(secs, s - 1) + Len(secs[s - 1].items)

\* the rows are those of the items of the document, section after section, and the
\* position of a row is the zero-based index of its item within its section
ZeroBasedPositions(filing, rows) ==
  LET secs == IF "sections" \in filing.keys THEN filing.sections ELSE <<>>
  IN /\ Len(rows) = ItemsBefore(secs, Len(secs) + 1)
     /\ \A s \in DOMAIN secs : \A t \in DOMAIN secs[s].items :
           /\ rows[ItemsBefore(secs, s) + t].position = t - 1
           /\ rows[ItemsBefore(secs, s) + t].item_label = secs[s].items[t].label
           /\ rows[ItemsBefore(secs, s) + t].section_label = secs[s].section

\* the step that flattens the periods leaves every period document as it was and
\* numbers the rows from zero within their sections
FlattenStep ==
  (pc = "prep" /\ pc' = "merge") =>
    /\ years_json' = years_json
    /\ \A i \in DOMAIN years_json : ZeroBasedPositions(years_json[i].v, flat_all'[i].v)

\* C27: flatten_with_positions leaves the period document passed to it unchanged,
\* and the position of each produced row is the zero-based index of its item within
\* its section
FlattenerPure == [][FlattenStep]_vars

\* the part of C27 about positions
FlattenerPositions ==
  (pc = "merge" /\ merged = 0) =>
    \A i \in DOMAIN years_json : ZeroBasedPositions(years_json[i].v, flat_all[i].v)

\* the document is left unchanged when it has a "periods" list of normalized keys
FlattenUnchangedStep ==
  (pc = "prep" /\ pc' = "merge") =>
    \A i \in DOMAIN years_json :
       ("periods" \in years_json[i].v.keys
        /\ \A j \in DOMAIN years_json[i].v.periods :
              normalize_year_key(years_json[i].v.periods[j]) = years_json[i].v.periods[j]) =>
         years_json'[i] = years_json[i]

FlattenerPureOnNormalized == [][FlattenUnchangedStep]_vars


\* what the reconciler decides for the entry, the authoritative row and the period
\* key P (lines 460-507)
ReconcilerMatch(entry, row, P) ==
  \/ ZeroOutGaapTier(entry, row)
  \/ ZeroOutLabelTier(entry, row)
  \/ ZeroOutValueTier(entry, row, P)

\* C28: for an entry, an authoritative row and a period key P, the reconciler treats
\* the row as a match exactly when match_line_items(entry, row, {P},
\* ignore_gaap=False) returns true
SameWaterfall ==
  (m_pc = "returned" /\ ~m_ignore_gaap /\ m_overlap_years = {Y2023}) =>
    (m_result <=> ReconcilerMatch(m_item1, m_item2, Y2023))

\* an item whose label is not empty and whose value for the period, if any, is None
\* or an int
PlainItem(item) ==
  /\ normalize_label(item.item_label) # <<>>
  /\ \A i \in DOMAIN item.values :
        ~item.values[i].v.d /\ item.values[i].v.k \in {"none", "int"}

\* C28 for plain items: the two waterfalls agree
SameWaterfallOnPlainItems ==
  (PlainItem(m_item1) /\ PlainItem(m_item2)) => SameWaterfall

\* a returned call on plain items of different tags and labels that the value tier
\* of both waterfalls decides
SameWaterfallWitness ==
  /\ m_pc = "returned"
  /\ ~m_ignore_gaap
  /\ m_overlap_years = {Y2023}
  /\ PlainItem(m_item1) /\ PlainItem(m_item2)
  /\ Truthy(m_item1.item_gaap) /\ Truthy(m_item2.item_gaap)
  /\ m_item1.item_gaap # m_item2.item_gaap
  /\ normalize_label(m_item1.item_label) # normalize_label(m_item2.item_label)
  /\ m_result
  /\ ReconcilerMatch(m_item1, m_item2, Y2023)


\* the results collected for the i-th filing
ResultsOf(i) == {n \in DOMAIN w_all_results : w_all_results[n].id = i}

\* the list of a statement type is in descending filing-year order and holds one
\* element for every filing whose worker returned a result with that statement
ListInOrder(list, kind) ==
  /\ \A m, n \in DOMAIN list : m < n => list[m].filing_year >= list[n].filing_year
  /\ \A m, n \in DOMAIN list : list[m].id = list[n].id => m = n
  /\ {list[n].id : n \in DOMAIN list}
       = {i \in DOMAIN w_filings :
            w_filings[i].outcome = "ok" /\ kind \in w_filings[i].statements}
  /\ \A n \in DOMAIN list : list[n].filing_year = w_filings[list[n].id].year

\* C29: whatever the interleaving of the workers, at most max_workers filings are
\* scraped at a time, exactly one result is collected for every filing whose worker
\* returned and was yielded (never two, and none for a worker that raised), and
\* after aggregate_statements every per-statement list is in descending filing-year
\* order
ScrapeCollection ==
  /\ Cardinality(Running) <= w_max_workers
  /\ \A i \in DOMAIN w_task :
        Cardinality(ResultsOf(i)) = IF w_task[i] = "collected" THEN 1 ELSE 0
  /\ (w_pc = "returned" /\ w_filings # <<>>) =>
       /\ \A i \in DOMAIN w_filings :
             w_filings[i].outcome # "raise" => w_task[i] = "collected"
       /\ \A kind \in ScrapedStatements : ListInOrder(w_data[kind], kind)

\* a returned run of more filings than workers in which a worker raised and the
\* results were collected neither in the order of submission nor in descending
\* year order
ScrapeCollectionWitness ==
  /\ w_pc = "returned"
  /\ Len(w_filings) > w_max_workers
  /\ w_max_workers > 1
  /\ \E i \in DOMAIN w_task : w_task[i] = "dropped"
  /\ \E m, n \in DOMAIN w_order :
        m < n /\ w_order[m] > w_order[n]
  /\ \E m, n \in DOMAIN w_order :
        m < n /\ w_filings[w_order[m]].year < w_filings[w_order[n]].year
  /\ Len(w_data["balance_sheet"]) >= 2


\* a row of the entry's section in the authoritative period of P matches the entry
\* as the reconciler matches
PresentFor(e, P) ==
  /\ HoldersOf(P) # {}
  /\ \E n \in DOMAIN AuthoritativeRows(P) :
        /\ RowSecKey(AuthoritativeRows(P)[n]) = PayloadSecKey(e)
        /\ ReconcilerMatch(e, AuthoritativeRows(P)[n], P)

\* what the reconciler may do to the entry before, leaving after: the fields other
\* than values and the period keys stay, a value stays or becomes 0.0, and it stays
\* when a matching item exists in the authoritative period
EntryFrame(before, after) ==
  /\ after.section_gaap = before.section_gaap
  /\ after.section_label = before.section_label
  /\ after.item_gaap = before.item_gaap
  /\ after.item_label = before.item_label
  /\ DKeySeq(after.values) = DKeySeq(before.values)
  /\ \A j \in DOMAIN before.values :
        /\ after.values[j].v \in {before.values[j].v, VFloat(0)}
        /\ PresentFor(before, before.values[j].k) => after.values[j].v = before.values[j].v

ReconcilerStep ==
  pc = "zero_out" =>
    /\ DKeySeq(unified') = DKeySeq(unified)
    /\ \A i \in DOMAIN unified : EntryFrame(unified[i].v, unified'[i].v)
    /\ flat_all' = flat_all
    /\ years_json' = years_json

\* C30: zero_out_overlapping_years_for_new_items only replaces values by 0.0: it
\* adds and removes no entry and no period key, changes no section or item tag or
\* label, changes no value for which a matching item exists in the authoritative
\* period, and leaves the flattened rows as they are
ReconcilerFrame == [][ReconcilerStep]_vars

\* the catalog right after the reconciler, in which one entry had a value set to 0.0
\* and kept another value, other than 0, for which a matching item exists
ReconcilerFrameWitness ==
  /\ pc = "labels"
  /\ \E n \in DOMAIN merge_log :
        /\ \A m \in DOMAIN merge_log : merge_log[m].key = merge_log[n].key => m = n
        /\ \E P, Q \in DKeys(LoggedRow(merge_log[n]).values) :
              /\ ValTruthy(DGet(LoggedRow(merge_log[n]).values, P))
              /\ DGet(DGet(unified, merge_log[n].key).values, P) = VFloat(0)
              /\ ~EqZero(DGet(DGet(unified, merge_log[n].key).values, Q))
              /\ PresentFor(DGet(unified, merge_log[n].key), Q)

============================================================================
